---- MODULE Spec2Model ----
(***************************************************************************)
(* Model of the sprint runner (scripts/parallel_sprint_runner.py), its     *)
(* task ledger (scripts/sprint_tools.py, sprint_metadata.py,               *)
(* sprint_utils.py) and its guardrails (scripts/sprint_guardrails.py).     *)
(*                                                                         *)
(* Spec    : run_parallel_execution, pass after pass: one asyncio event    *)
(*           loop, a queue, C worker tasks, the ledger file, the retry     *)
(*           tracker and the circuit breaker.  A worker step runs from one *)
(*           suspension point of the coroutine to the next one.            *)
(* FairSpec: Spec with the event loop's fairness (every ready task runs,   *)
(*           every agent stream ends).                                     *)
(* SpecCB  : the CircuitBreaker object alone, driven by record_action.     *)
(***************************************************************************)
EXTENDS Integers, Sequences, FiniteSets, TLC

\* ---------------------------------------------------------------- bounds
NumTasks == 2        \* task lines in the ledger
MaxC == 2            \* largest CONCURRENCY_LIMIT tried
MaxPasses == 4       \* calls of run_parallel_execution on one runner
MaxRecords == 11     \* record_action calls in SpecCB
MaxCallers == 2      \* concurrent callers of update_sprint_task_status
MaxItems == 2        \* items of an agent output given to validate_output
TurnsPerStream == 5  \* events of an agent stream that ends, where they are not counted one by one

\* ------------------------------------------------------ program constants
MAX_BLOCKED_RETRIES == 2
DefaultWindowSize == 10
DefaultFailureThreshold == 3

VARIABLES
  ledger,          \* the sprint file: sequence of task lines
  guardrailsOn,    \* run_parallel_execution(guardrails=...) is not None
  profileOn,       \* run_parallel_execution(profile_manager=...) is not None
  concurrency,     \* SprintConfig.CONCURRENCY_LIMIT
  mainPc,          \* "idle" | "join" | "gather"   (run_parallel_execution)
  passNo,          \* number of passes started
  queue,           \* asyncio.Queue items (task indices), FIFO
  unfinished,      \* queue._unfinished_tasks
  finished,        \* queue._finished is set
  pc,              \* worker -> "none" | "start" | "wait" | "stream" | "done"
  item,            \* worker -> task index it is processing (0: none)
  turnsBound,      \* worker -> local variable actual_turns is bound
  cancelReq,       \* worker -> Task.cancel() requested, not yet delivered
  tracker,         \* task_retry_tracker: description -> count
  enqueued,        \* tasks_to_execute of the current pass (task indices)
  invoked,         \* task -> times the Agent was invoked in this pass
  shorted,         \* tasks short-circuited by guardrail or circuit this pass
  window_size,     \* CircuitBreaker.window_size
  failure_threshold, \* CircuitBreaker.failure_threshold
  recent_actions,  \* CircuitBreaker.recent_actions (deque, maxlen window_size)
  history,         \* every (fingerprint, success) ever recorded, in order
  ev,              \* the step just taken: [kind, w, t, exc]
  unitPc,          \* run_agent of worker 1: "off" | "run" | "backoff" | "ok" | "failed"
  turn_count,      \* run_agent.turn_count
  soft_limit,      \* run_agent.soft_limit
  hard_limit,      \* run_agent.hard_limit
  attempt_number,  \* tenacity attempt number of the retry_decorator
  task_meta,       \* the "[K:V|...]" block of the description: seq of <<key, value>>
  reqLog,          \* request_turn_budget events seen in this attempt
  callers,         \* caller -> a call of update_sprint_task_status in progress
  cycle,           \* SprintRunner.run_cycle: position, loop_count and phase results
  output,          \* AgentGuardrails.validate_output: the text and what was returned
  locking,         \* the byte lock of the sprint file and the calls that take it
  files            \* the sprint directories' listings and the file each call chose

cfgVars == <<guardrailsOn, profileOn, concurrency>>
schedVars == <<mainPc, passNo, queue, unfinished, finished, pc, item,
               turnsBound, cancelReq, tracker, enqueued, invoked, shorted>>
cbVars == <<window_size, failure_threshold, recent_actions, history>>
unitVars == <<unitPc, turn_count, soft_limit, hard_limit, attempt_number,
              task_meta, reqLog>>
apiVars == <<callers>>
phaseVars == <<cycle, output, locking, files>>
vars == <<ledger, cfgVars, schedVars, cbVars, ev, unitVars, apiVars, phaseVars>>

Tasks == 1..NumTasks
WorkerIds == 1..(MaxC + 1)

\* ------------------------------------------------------------ small helpers
Min(a, b) == IF a <= b THEN a ELSE b

\* F(x), with x evaluated once before F is applied
Strict(F(_), x) == CHOOSE r \in {F(v) : v \in {x}} : TRUE

DigitChars == <<"0", "1", "2", "3", "4", "5", "6", "7", "8", "9">>

\* str(n) for n >= 0: the decimal digits of n
RECURSIVE StrOfNat(_)
StrOfNat(n) ==
  IF n < 10 THEN <<DigitChars[n + 1]>>
  ELSE StrOfNat(n \div 10) \o <<DigitChars[(n % 10) + 1]>>

\* s contains the token sequence sub as a contiguous run (Python "sub in s")
Contains(s, sub) ==
  \E i \in 0..(Len(s) - Len(sub)) :
     \A j \in 1..Len(sub) : s[i + j] = sub[j]

\* ---------------------------------------------------------- descriptions
\* A description is a token sequence; task i is "task<i>", optionally
\* followed by a destructive command.  The task names stand for texts that
\* are pairwise dissimilar (similarity ratio below 0.6).
TaskName == <<"task1", "task2", "task3", "task4", "task5", "task6">>

PlainDesc(i) == <<TaskName[i]>>

HarmDesc(i) == <<TaskName[i], "rm -rf /">>

\* descriptions that contain the first one: "task1", "task1 task<i>"
SimilarDesc(i) == IF i = 1 THEN PlainDesc(1) ELSE <<TaskName[1], TaskName[i]>>

\* the descriptions as the ledgers are written
WrittenDescs ==
  {PlainDesc(i) : i \in 1..NumTasks} \cup {HarmDesc(i) : i \in 1..NumTasks}
    \cup {SimilarDesc(i) : i \in 1..NumTasks}

harmful_keywords == {"rm -rf /", "mkfs", ":(){ :|:& };:", "> /dev/sda", "format c:"}

\* ------------------------------------------------------------ ledger lines
\* "- [<mark>] <desc>[ [<meta>]][ [BLOCKED: <annot>]]": meta is the text
\* between the brackets of the metadata block, as tokens
\* ("POINTS", ":", "8", "|", ...), empty when the line has no block.  The
\* role of a task is written in front of it ("@Role: ") and is the same on
\* every line; descriptions are short (under 37 characters), so that the
\* text left in front of a description by the cleaning below keeps the
\* similarity ratio of an exact match under the substring boost of 0.85.
StatusTodo == <<"[", " ", "]">>

StatusInProgress == <<"[", "/", "]">>

StatusBlocked == <<"[", "!", "]">>

StatusDone == <<"[", "x", "]">>

StatusDefect == <<"[", "?", "]">>

NoMeta == <<>>

MetaBlock(meta) == IF meta = <<>> THEN <<>> ELSE <<" ", "[">> \o meta \o <<"]">>

\* every description parse_sprint_tasks can return: as written, or followed
\* by the metadata block a recorded turn usage has left on the line
AllDescs ==
  WrittenDescs \cup
  {d \o MetaBlock(<<"TURNS_USED", ":">> \o StrOfNat(TurnsPerStream)) : d \in WrittenDescs}

BlockedToken(reason) == <<"[", "BLOCKED", ":", " ", reason, "]">>

LineTokens(l) ==
  <<"-", " ", "[", l.mark, "]", " ">> \o l.desc \o MetaBlock(l.meta) \o
  (IF l.annot = "" THEN <<>> ELSE <<" ">> \o BlockedToken(l.annot))

\* str.strip(): leading and trailing blanks removed
RECURSIVE LStrip(_)
LStrip(s) == IF s # <<>> /\ Head(s) = " " THEN Strict(LStrip, Tail(s)) ELSE s

RECURSIVE RStrip(_)
RStrip(s) ==
  IF s # <<>> /\ s[Len(s)] = " " THEN Strict(RStrip, SubSeq(s, 1, Len(s) - 1)) ELSE s

StripWs(s) == Strict(LStrip, Strict(RStrip, s))

\* re.sub(r'\[.*?\]', '', s): every "[" up to the next "]" is removed
RECURSIVE RemoveBracketed(_)
RemoveBracketed(s) ==
  IF s = <<>> THEN <<>>
  ELSE LET close == {j \in 2..Len(s) : s[j] = "]"}
       IN  IF Head(s) = "[" /\ close # {}
           THEN Strict(RemoveBracketed,
                       SubSeq(s, (CHOOSE j \in close : \A k \in close : j <= k) + 1, Len(s)))
           ELSE <<Head(s)>> \o Strict(RemoveBracketed, Tail(s))

\* re.sub(r'^[\s\-\*]+', '', s)
RECURSIVE StripBullets(_)
StripBullets(s) ==
  IF s # <<>> /\ Head(s) \in {" ", "-", "*"} THEN Strict(StripBullets, Tail(s)) ELSE s

\* ------------------------------------------------- sprint_metadata.py
\* clean_line (lines 179-181): the bracket removal takes the checkbox away
\* first, so the checkbox pattern of line 180 no longer matches and the
\* bullet stays in front of the text
CleanLine(l) == StripWs(Strict(RemoveBracketed, LineTokens(l)))

\* clean_search (lines 165-167)
CleanSearch(task_desc) ==
  StripWs(Strict(StripBullets, Strict(RemoveBracketed, task_desc)))

\* difflib ratio in percent, with the substring boost to 85
Ratio(clean_search, clean_line) ==
  IF clean_search = clean_line THEN 100
  ELSE IF Contains(clean_line, clean_search) \/ Contains(clean_search, clean_line) THEN 85
  ELSE 0

\* "lines that look like tasks": re.match(r'^\s*-\s*\[[x /!]\]', line)
LooksLikeTask(l) == l.mark \in {"x", " ", "/", "!"}

\* first index with the largest ratio among the lines that look like tasks
\* (the loop replaces only on ratio > best); 0 when there is none
BestIdx(lines, task_desc) ==
  LET cand == {i \in 1..Len(lines) : LooksLikeTask(lines[i])}
      Scores(clean_search) ==
        [i \in 1..Len(lines) |-> Strict(LAMBDA l : Ratio(clean_search, CleanLine(l)), lines[i])]
      Best(r) ==
        IF cand = {} THEN 0
        ELSE CHOOSE i \in cand :
               /\ \A j \in cand : r[j] <= r[i]
               /\ \A j \in cand : j < i => r[j] < r[i]
  IN  Strict(Best, Strict(Scores, CleanSearch(task_desc)))

update_task_status_in_file_EveryMatch(lines, task_desc, status) ==
  LET Rewrite(best_idx) ==
        IF best_idx = 0
        THEN [found |-> FALSE, lines |-> lines]
        ELSE IF Ratio(CleanSearch(task_desc), CleanLine(lines[best_idx])) < 60
        THEN [found |-> FALSE, lines |-> lines]
        ELSE [found |-> TRUE,
              lines |-> [i \in 1..Len(lines) |->
                           IF /\ LooksLikeTask(lines[i])
                              /\ Ratio(CleanSearch(task_desc), CleanLine(lines[i])) >= 60
                           THEN [lines[i] EXCEPT !.mark = status[2]]
                           ELSE lines[i]]]
  IN  Strict(Rewrite, BestIdx(lines, task_desc))

\* update_task_status_in_file: [found, lines]
update_task_status_in_file(lines, task_desc, status) ==
  LET Rewrite(best_idx) ==
        IF best_idx = 0
        THEN [found |-> FALSE, lines |-> lines]
        ELSE IF Ratio(CleanSearch(task_desc), CleanLine(lines[best_idx])) < 60
        THEN [found |-> FALSE, lines |-> lines]
        ELSE [found |-> TRUE, lines |-> [lines EXCEPT ![best_idx].mark = status[2]]]
  IN  Strict(Rewrite, BestIdx(lines, task_desc))

\* ---- update_task_metadata_in_file (lines 37-140)
\* s.split(sep): the runs of s between the separators
RECURSIVE Split(_, _)
Split(s, sep) ==
  LET at == {j \in 1..Len(s) : s[j] = sep}
  IN  IF at = {} THEN <<s>>
      ELSE LET j == CHOOSE k \in at : \A m \in at : k <= m
           IN  <<SubSeq(s, 1, j - 1)>> \o Split(SubSeq(s, j + 1, Len(s)), sep)

\* s.strip('[]')
RECURSIVE StripSquare(_)
StripSquare(s) ==
  IF s # <<>> /\ Head(s) \in {"[", "]"} THEN StripSquare(Tail(s))
  ELSE IF s # <<>> /\ s[Len(s)] \in {"[", "]"} THEN StripSquare(SubSeq(s, 1, Len(s) - 1))
  ELSE s

\* d[k] = v on an insertion-ordered dict, kept as a sequence of [k, v]
DictSet(d, k, v) ==
  IF \E i \in 1..Len(d) : d[i].k = k
  THEN [i \in 1..Len(d) |-> IF d[i].k = k THEN [k |-> k, v |-> v] ELSE d[i]]
  ELSE Append(d, [k |-> k, v |-> v])

\* the loop of lines 111-114: every pair with a ':' is split at the first one
RECURSIVE DictOfPairs(_, _)
DictOfPairs(pairs, d) ==
  IF pairs = <<>> THEN d
  ELSE LET pair == Head(pairs)
           kv == Split(pair, ":")
           k == StripWs(kv[1])
           v == StripWs(SubSeq(pair, Len(kv[1]) + 2, Len(pair)))
       IN  DictOfPairs(Tail(pairs),
                       IF Len(kv) > 1 THEN DictSet(d, k, v) ELSE d)

\* metadata_dict.update(new_metadata)
RECURSIVE DictUpdate(_, _)
DictUpdate(d, new_metadata) ==
  IF new_metadata = <<>> THEN d
  ELSE DictUpdate(DictSet(d, Head(new_metadata).k, Head(new_metadata).v),
                  Tail(new_metadata))

\* '|'.join(f"{k}:{v}" ...)
RECURSIVE JoinPairs(_)
JoinPairs(d) ==
  IF d = <<>> THEN <<>>
  ELSE Head(d).k \o <<":">> \o Head(d).v \o
       (IF Len(d) = 1 THEN <<>> ELSE <<"|">> \o JoinPairs(Tail(d)))

\* the match of line 99 on a task line: (prefix)(content)(metadata?)(ws)$.
\* The content is lazy and the metadata group is "\s*\[.*?\]" anchored at
\* the end of the line, so on a line that ends with "]" the group runs from
\* the first "[" after the checkbox to the end of the line.
SplitTaskLine(l) ==
  LET after == SubSeq(LineTokens(l), 7, Len(LineTokens(l)))
      open == {j \in 1..Len(after) : after[j] = "["}
  IN  IF open # {} /\ after[Len(after)] = "]"
      THEN LET p == CHOOSE j \in open : \A m \in open : j <= m
           IN  [task_text |-> RStrip(SubSeq(after, 1, p - 1)),
                existing_metadata |-> SubSeq(after, p, Len(after))]
      ELSE [task_text |-> RStrip(after), existing_metadata |-> <<>>]

\* lines 95-131: the line rebuilt as prefix + task_text + " [k:v|...]"
MergeMetadata(l, new_metadata) ==
  LET parts == SplitTaskLine(l)
      metadata_dict == DictOfPairs(
                         IF parts.existing_metadata = <<>> THEN <<>>
                         ELSE Split(StripSquare(parts.existing_metadata), "|"),
                         <<>>)
  IN  [mark |-> l.mark,
       desc |-> StripWs(parts.task_text),
       meta |-> JoinPairs(DictUpdate(metadata_dict, new_metadata)),
       annot |-> ""]

update_task_metadata_in_file_NoThreshold(lines, task_desc, new_metadata) ==
  LET Rewrite(best_idx) ==
        IF best_idx = 0
        THEN [found |-> FALSE, lines |-> lines]
        ELSE [found |-> TRUE,
              lines |-> [lines EXCEPT ![best_idx] = MergeMetadata(@, new_metadata)]]
  IN  Strict(Rewrite, BestIdx(lines, task_desc))

\* update_task_metadata_in_file: [found, lines]
update_task_metadata_in_file(lines, task_desc, new_metadata) ==
  LET Rewrite(best_idx) ==
        IF best_idx = 0
        THEN [found |-> FALSE, lines |-> lines]
        ELSE IF Ratio(CleanSearch(task_desc), CleanLine(lines[best_idx])) < 60
        THEN [found |-> FALSE, lines |-> lines]
        ELSE [found |-> TRUE,
              lines |-> [lines EXCEPT ![best_idx] = MergeMetadata(@, new_metadata)]]
  IN  Strict(Rewrite, BestIdx(lines, task_desc))

\* --------------------------------------------------------- sprint_tools.py
SprintDirPath == "<sprint_dir>"

DefaultSprintDir == "project_tracking"

\* detect_latest_sprint_file(abspath(sprint_dir)) finds the ledger: the runner
\* is started in the project root (main() takes os.getcwd() as project root),
\* so the relative default "project_tracking" resolves to the sprint dir too
DirHasLedger(sprint_dir) == sprint_dir \in {SprintDirPath, DefaultSprintDir}

\* the line the blocker reason is appended to: the first one that contains
\* the description and the text f"- [{status}]"
BlockerLineIdx(lines, task_description, status) ==
  LET hit(i) == /\ Contains(LineTokens(lines[i]), task_description)
                /\ Contains(LineTokens(lines[i]), <<"-", " ", "[">> \o status \o <<"]">>)
  IN  IF \E i \in 1..Len(lines) : hit(i)
      THEN CHOOSE i \in 1..Len(lines) : hit(i) /\ \A j \in 1..(i - 1) : ~hit(j)
      ELSE 0

\* lines 589-607: append the reason to the line found, unless it has one
AppendBlockerReason(lines, task_description, status, blocker_reason) ==
  LET Append_(i) ==
        IF i = 0 THEN lines
        ELSE IF Contains(LineTokens(lines[i]), <<"[", "BLOCKED", ":">>) THEN lines
        ELSE [lines EXCEPT ![i].annot = blocker_reason]
  IN  Strict(Append_, BlockerLineIdx(lines, task_description, status))

\* update_sprint_task_status(task_description, status, blocker_reason, sprint_dir):
\* [raised, lines]
update_sprint_task_status(lines, task_description, status, blocker_reason, sprint_dir) ==
  LET Finish(upd) ==
        IF ~upd.found \/ blocker_reason = ""
        THEN [raised |-> FALSE, lines |-> upd.lines]
        ELSE [raised |-> FALSE,
              lines |-> AppendBlockerReason(upd.lines, task_description,
                                            status, blocker_reason)]
  IN  IF status = StatusBlocked /\ blocker_reason = ""
      THEN [raised |-> TRUE, lines |-> lines]
      ELSE IF ~DirHasLedger(sprint_dir)
      THEN [raised |-> FALSE, lines |-> lines]
      ELSE Strict(Finish, update_task_status_in_file(lines, task_description, status))

\* record_turn_usage(task_description, turns_used): the file it leaves; the
\* result of update_task_metadata_in_file is only reported in the return value
record_turn_usage(lines, task_description, turns_used) ==
  update_task_metadata_in_file(
    lines, task_description,
    << [k |-> <<"TURNS_USED">>, v |-> StrOfNat(turns_used)] >>).lines

\* parse_sprint_tasks: the indices of the lines marked ' ', '/' or '!'
StatusName(mark) ==
  CASE mark = " " -> "todo"
    [] mark = "/" -> "in_progress"
    [] mark = "!" -> "blocked"
    [] mark = "x" -> "done"
    [] OTHER -> "unknown"

\* the description parse_sprint_tasks returns for a line: the text after the
\* checkbox and the role, metadata block included, "[BLOCKED: ...]" removed
ParsedDesc(l) == l.desc \o MetaBlock(l.meta)

PendingMarks_WithDone == {" ", "/", "!", "x"}

\* the checkbox characters of the task pattern (line 59): "[ /!]"
PendingMarks == {" ", "/", "!"}

RECURSIVE parse_sprint_tasks(_, _)
parse_sprint_tasks(lines, i) ==
  IF i > Len(lines) THEN <<>>
  ELSE (IF lines[i].mark \in PendingMarks
        THEN << [idx |-> i, desc |-> ParsedDesc(lines[i]),
                 status |-> StatusName(lines[i].mark),
                 blocker_reason |-> lines[i].annot] >>
        ELSE <<>>) \o parse_sprint_tasks(lines, i + 1)

\* get_all_sprint_tasks: the status of every task line, by its checkbox
\* character (status_map, "unknown" for '.')
AllStatusName(mark) ==
  CASE mark = " " -> "todo"
    [] mark = "x" -> "done"
    [] mark = "/" -> "in_progress"
    [] mark = "!" -> "blocked"
    [] mark = "?" -> "defect"
    [] OTHER -> "unknown"

\* analyze_sprint_status: summary[status] for the task lines of the file
StatusCount(lines, status) ==
  Cardinality({i \in 1..Len(lines) :
                 /\ lines[i].mark \in {" ", "x", "/", "!", "?", "."}
                 /\ AllStatusName(lines[i].mark) = status})

StatusTotal(lines) ==
  Cardinality({i \in 1..Len(lines) : lines[i].mark \in {" ", "x", "/", "!", "?", "."}})

validate_sprint_state_AnyDone(lines) ==
  IF StatusTotal(lines) = 0 THEN "needs_planning"
  ELSE IF StatusCount(lines, "done") > 0 THEN "completed"
  ELSE "ready"

\* validate_sprint_state (parallel_sprint_runner.py 175-196)
validate_sprint_state(lines) ==
  IF StatusTotal(lines) = 0 THEN "needs_planning"
  ELSE IF /\ StatusCount(lines, "done") = StatusTotal(lines)
          /\ StatusTotal(lines) > 0
          /\ StatusCount(lines, "todo") = 0
          /\ StatusCount(lines, "in_progress") = 0
          /\ StatusCount(lines, "blocked") = 0
  THEN "completed"
  ELSE "ready"

\* ---------------------------------------------------- sprint_guardrails.py
check_harmful_content(text) == \E i \in 1..Len(text) : text[i] \in harmful_keywords

validate_input(user_input) == ~check_harmful_content(user_input)

\* ---- PIIDetector and validate_output
\* An agent output is a token sequence: words, blanks, and texts the PII
\* patterns are written for.  For each token: how many characters it has
\* when it is made of [A-Za-z0-9_-] only (0 otherwise), and whether its
\* first and last characters are word characters (for "\b").
EmailTok == "john@example.com"

PhoneTok == "555-123-4567"

IpTok == "10.0.0.1"

KeywordTok == "password="

KeyTailTok == "-abcdefghijk"

LongKeyTok == "abcdefghijklmnopqrstuvwx"

KeyChars(tok) ==
  CASE tok = PhoneTok -> 12
    [] tok = KeyTailTok -> 12
    [] tok = LongKeyTok -> 24
    [] tok = "call" -> 4
    [] OTHER -> 0

StartsWord(tok) ==
  tok \in {EmailTok, PhoneTok, IpTok, KeywordTok, LongKeyTok, "call", "rm -rf /"}

EndsWord(tok) ==
  tok \in {EmailTok, PhoneTok, IpTok, KeyTailTok, LongKeyTok, "call"}

\* "\b" in front of text[i] and behind text[j]
BoundaryBefore(text, i) ==
  IF i = 1 THEN StartsWord(text[1]) ELSE EndsWord(text[i - 1]) # StartsWord(text[i])

BoundaryAfter(text, j) ==
  IF j = Len(text) THEN EndsWord(text[j]) ELSE EndsWord(text[j]) # StartsWord(text[j + 1])

\* the patterns of PIIDetector.PATTERNS the tokens above can match, in the
\* order of the dict
PiiTypes == <<"email", "phone", "ip_address", "api_key">>

\* the key characters and the tokens of the run of key tokens from i on
RECURSIVE KeyRun(_, _)
KeyRun(text, i) ==
  IF i > Len(text) THEN [chars |-> 0, toks |-> 0]
  ELSE IF KeyChars(text[i]) = 0 THEN [chars |-> 0, toks |-> 0]
  ELSE LET rest == KeyRun(text, i + 1)
       IN  [chars |-> KeyChars(text[i]) + rest.chars, toks |-> 1 + rest.toks]

\* the number of tokens the pattern of pii_type matches at text[i] (0: none)
MatchAt(text, i, pii_type) ==
  CASE pii_type = "email" ->
         IF text[i] = EmailTok /\ BoundaryBefore(text, i) /\ BoundaryAfter(text, i)
         THEN 1 ELSE 0
    [] pii_type = "phone" ->
         IF text[i] = PhoneTok /\ BoundaryBefore(text, i) /\ BoundaryAfter(text, i)
         THEN 1 ELSE 0
    [] pii_type = "ip_address" ->
         IF text[i] = IpTok /\ BoundaryBefore(text, i) /\ BoundaryAfter(text, i)
         THEN 1 ELSE 0
    [] pii_type = "api_key" ->
         IF /\ text[i] = KeywordTok
            /\ BoundaryBefore(text, i)
            /\ KeyRun(text, i + 1).chars >= 20
         THEN 1 + KeyRun(text, i + 1).toks ELSE 0
    [] OTHER -> 0

\* re.findall(pattern, text): the matches from position i on, left to
\* right and not overlapping, each with the place it was found at
RECURSIVE FindAll(_, _, _)
FindAll(text, i, pii_type) ==
  IF i > Len(text) THEN <<>>
  ELSE LET n == MatchAt(text, i, pii_type)
       IN  IF n > 0
           THEN <<[type |-> pii_type, pos |-> i, len |-> n]>> \o
                FindAll(text, i + n, pii_type)
           ELSE FindAll(text, i + 1, pii_type)

\* PIIDetector.detect: the findings of every pattern on the text
RECURSIVE detect(_, _)
detect(text, k) ==
  IF k > Len(PiiTypes) THEN <<>>
  ELSE FindAll(text, 1, PiiTypes[k]) \o detect(text, k + 1)

Placeholder(pii_type) ==
  CASE pii_type = "email" -> "[EMAIL_REDACTED]"
    [] pii_type = "phone" -> "[PHONE_REDACTED]"
    [] pii_type = "ip_address" -> "[IP_ADDRESS_REDACTED]"
    [] pii_type = "api_key" -> "[API_KEY_REDACTED]"
    [] OTHER -> "[REDACTED]"

\* re.sub(pattern, placeholder, masked) for one pattern, from position i on
RECURSIVE SubPattern(_, _, _)
SubPattern(masked, i, pii_type) ==
  IF i > Len(masked) THEN <<>>
  ELSE LET n == MatchAt(masked, i, pii_type)
       IN  IF n > 0
           THEN <<Placeholder(pii_type)>> \o SubPattern(masked, i + n, pii_type)
           ELSE <<masked[i]>> \o SubPattern(masked, i + 1, pii_type)

\* PIIDetector.mask_pii: one pattern after the other, each on the text the
\* patterns before it have left
RECURSIVE mask_pii(_, _)
mask_pii(masked, k) ==
  IF k > Len(PiiTypes) THEN masked
  ELSE mask_pii(SubPattern(masked, 1, PiiTypes[k]), k + 1)

\* AgentGuardrails.validate_output: [is_valid, findings, harmful, sanitized]
validate_output(agent_output) ==
  LET pii_findings == detect(agent_output, 1)
      harmful == check_harmful_content(agent_output)
  IN  [is_valid |-> ~(pii_findings # <<>> \/ harmful),
       findings |-> pii_findings,
       harmful |-> harmful,
       sanitized |-> IF pii_findings # <<>> THEN mask_pii(agent_output, 1)
                     ELSE agent_output]

\* hashlib.md5(action).hexdigest()[:8]; injective on the descriptions used
Fingerprint(action) == <<"md5">> \o action

\* deque(maxlen = size).append
DequeAppend(dq, x, size) ==
  IF size = 0 THEN <<>>
  ELSE IF Len(dq) >= size THEN Tail(dq) \o <<x>> ELSE dq \o <<x>>

record_action(recent, size, action, success) ==
  DequeAppend(recent, <<Fingerprint(action), success>>, size)

FailureCount(recent, action) ==
  Cardinality({i \in 1..Len(recent) :
                 recent[i][1] = Fingerprint(action) /\ ~recent[i][2]})

is_open_Above(recent, threshold, action) == FailureCount(recent, action) > threshold

is_open(recent, threshold, action) == FailureCount(recent, action) >= threshold

\* AgentGuardrails.check_circuit: allowed
check_circuit(recent, threshold, action) == ~is_open(recent, threshold, action)

\* ------------------------------------------- parallel_sprint_runner.py
NoTask == [idx |-> 0, desc |-> <<>>, status |-> "", blocker_reason |-> ""]

\* The part of the state a worker changes while it runs between two
\* suspension points; exc: an exception reached the worker's outer handler.
SyncState ==
  [ledger |-> ledger, queue |-> queue, unfinished |-> unfinished,
   finished |-> finished, tracker |-> tracker, recent |-> recent_actions,
   invoked |-> invoked, shorted |-> shorted, exc |-> FALSE]

\* asyncio.Queue.task_done: ValueError when called too many times
task_done(s) ==
  IF s.unfinished <= 0
  THEN [s EXCEPT !.exc = TRUE]
  ELSE [s EXCEPT !.unfinished = @ - 1,
                 !.finished = @ \/ (s.unfinished - 1 = 0)]

\* a short-circuit branch of the loop body: queue.task_done(); continue,
\* and the finally clause of the enclosing try runs queue.task_done() again
ShortCircuitExit(s) == Strict(task_done, Strict(task_done, s))

GuardrailBlock_NoWrite(s, task) ==
  ShortCircuitExit([s EXCEPT !.shorted = @ \cup {task.idx}])

\* guardrail violation branch (lines 297-309)
GuardrailBlock(s, task) ==
  LET r == update_sprint_task_status(s.ledger, task.desc, StatusBlocked,
                                     "Guardrail violation", SprintDirPath)
  IN  ShortCircuitExit([s EXCEPT !.ledger = r.lines,
                                 !.shorted = @ \cup {task.idx}])

\* circuit breaker branch (lines 312-321)
CircuitBlock(s, task) ==
  LET r == update_sprint_task_status(s.ledger, task.desc, StatusBlocked,
                                     "Circuit open", SprintDirPath)
  IN  ShortCircuitExit([s EXCEPT !.ledger = r.lines,
                                 !.shorted = @ \cup {task.idx}])

\* retry limit branch (lines 324-330)
RetryLimitSkip(s, task) == ShortCircuitExit(s)

\* mark in-progress (line 339: the sprint dir is passed as blocker_reason)
\* and start the agent
Dispatch(s, task) ==
  LET r == update_sprint_task_status(s.ledger, task.desc, StatusInProgress,
                                     SprintDirPath, DefaultSprintDir)
  IN  [s EXCEPT !.ledger = r.lines,
                !.invoked = [@ EXCEPT ![task.idx] = @ + 1]]

\* The worker's while-loop from "await queue.get()" to its next suspension:
\* queue.get() on a non-empty queue does not suspend, nor does any ledger
\* update, so short-circuited items are handled in the same step.
RECURSIVE WorkerLoop(_)
WorkerLoop(s) ==
  IF s.queue = <<>>
  THEN [st |-> s, pc |-> "wait", task |-> NoTask]
  ELSE LET task == Head(s.queue)
           s0 == [s EXCEPT !.queue = Tail(@)]
       IN  IF guardrailsOn /\ ~validate_input(task.desc)
           THEN Strict(WorkerLoop, GuardrailBlock(s0, task))
           ELSE IF guardrailsOn
                   /\ ~check_circuit(s0.recent, failure_threshold, task.desc)
           THEN Strict(WorkerLoop, CircuitBlock(s0, task))
           ELSE IF task.status = "blocked"
                   /\ s0.tracker[task.desc] >= MAX_BLOCKED_RETRIES
           THEN Strict(WorkerLoop, RetryLimitSkip(s0, task))
           ELSE [st |-> Dispatch(s0, task), pc |-> "stream", task |-> task]

\* success branch (lines 513-550) followed by the finally clause;
\* actual_turns: what run_agent returned
OnSuccess(s, task, actual_turns) ==
  LET rec == IF guardrailsOn
             THEN record_action(s.recent, window_size, task.desc, TRUE)
             ELSE s.recent
      MarkDone(lines) ==
        update_sprint_task_status(lines, task.desc, StatusDone,
                                  SprintDirPath, DefaultSprintDir).lines
      done == Strict(MarkDone, record_turn_usage(s.ledger, task.desc, actual_turns))
  IN  Strict(task_done, [s EXCEPT !.recent = rec, !.ledger = done])

\* failure branch (lines 552-586) followed by the finally clause;
\* bound: the worker's local actual_turns has been assigned
OnFailure(s, task, bound) ==
  LET rec == IF guardrailsOn
             THEN record_action(s.recent, window_size, task.desc, FALSE)
             ELSE s.recent
      s1 == [s EXCEPT !.recent = rec]
      r == update_sprint_task_status(s.ledger, task.desc, StatusBlocked,
                                     SprintDirPath, DefaultSprintDir)
  IN  IF profileOn /\ ~bound
      THEN \* update_profile(..., turns=actual_turns): UnboundLocalError
           Strict(task_done, [s1 EXCEPT !.exc = TRUE])
      ELSE Strict(task_done, [s1 EXCEPT
                                !.tracker = [@ EXCEPT ![task.desc] = @ + 1],
                                !.ledger = r.lines,
                                !.exc = @ \/ r.raised])

\* CancelledError thrown into the worker while it awaits the agent: only
\* the finally clause runs; swallowed: task_done() raised ValueError, which
\* replaces the CancelledError and is caught by "except Exception"
OnCancelInStream(s) == task_done(s)

WorkersCreated_OneMore(limit) == 1..(limit + 1)

\* range(concurrency_limit)
WorkersCreated(limit) == 1..limit

Commit(s) ==
  /\ ledger' = s.ledger
  /\ queue' = s.queue
  /\ unfinished' = s.unfinished
  /\ finished' = s.finished
  /\ tracker' = s.tracker
  /\ recent_actions' = s.recent
  /\ invoked' = s.invoked
  /\ shorted' = s.shorted

Continue_StopOnCrash(w, s, kind, t) ==
  \E r \in {Strict(WorkerLoop, s)} :
      /\ Commit(IF s.exc THEN s ELSE r.st)
      /\ pc' = [pc EXCEPT ![w] = IF s.exc THEN "done" ELSE r.pc]
      /\ item' = [item EXCEPT ![w] = IF s.exc THEN NoTask ELSE r.task]
      /\ ev' = [kind |-> kind, w |-> w, t |-> t, exc |-> s.exc \/ r.st.exc]

\* the worker goes round its while-loop after the step whose state is s:
\* "except Exception" logs and the loop goes on (lines 276-281, 588-600)
Continue(w, s, kind, t) ==
  \E r \in {Strict(WorkerLoop, s)} :
      /\ Commit(r.st)
      /\ pc' = [pc EXCEPT ![w] = r.pc]
      /\ item' = [item EXCEPT ![w] = r.task]
      /\ ev' = [kind |-> kind, w |-> w, t |-> t, exc |-> r.st.exc]

\* ------------------------------------- run_agent: turn budget and retry
DEFAULT_TURNS_ESTIMATED == 40
MinSoftAtStart == 40

MinSoftOnUpdate_Ten == MinSoftAtStart \div 4

\* max(20, int(est)) (line 490)
MinSoftOnUpdate == 20

DefaultEstimatedTurns == 20

StopAfterAttempt_Eleven == DefaultWindowSize + 1

\* stop_after_attempt(10)
StopAfterAttempt == 10

IsDigit(c) == \E i \in 1..10 : DigitChars[i] = c

DigitVal(c) == (CHOOSE i \in 1..10 : DigitChars[i] = c) - 1

\* int(v) accepts v: an optional sign followed by decimal digits
IsIntText(v) ==
  LET body == IF v # <<>> /\ Head(v) = "-" THEN Tail(v) ELSE v
  IN  body # <<>> /\ \A i \in 1..Len(body) : IsDigit(body[i])

RECURSIVE ParseNat(_)
ParseNat(v) ==
  IF v = <<>> THEN 0
  ELSE ParseNat(SubSeq(v, 1, Len(v) - 1)) * 10 + DigitVal(v[Len(v)])

\* int(v) for a text v with IsIntText(v)
ParseInt(v) == IF Head(v) = "-" THEN 0 - ParseNat(Tail(v)) ELSE ParseNat(v)

\* parse_task_metadata(desc, key, default) on the first "[...]" block of the
\* description: [found, isInt, n, text]
parse_task_metadata(meta, key, default) ==
  LET hits == {i \in 1..Len(meta) : meta[i][1] = key}
  IN  IF hits = {}
      THEN [isInt |-> TRUE, n |-> default, text |-> <<>>]
      ELSE LET v == meta[CHOOSE i \in hits : \A j \in hits : i <= j][2]
           IN  IF IsIntText(v)
               THEN [isInt |-> TRUE, n |-> ParseInt(v), text |-> v]
               ELSE [isInt |-> FALSE, n |-> 0, text |-> v]

InitialBudget_FlatBuffer(meta) ==
  LET initial_budget == parse_task_metadata(meta, "TURNS_ESTIMATED",
                                            DEFAULT_TURNS_ESTIMATED)
      soft == IF initial_budget.n >= MinSoftAtStart
              THEN initial_budget.n ELSE MinSoftAtStart
  IN  [raised |-> ~initial_budget.isInt, soft |-> soft, hard |-> soft + 40]

\* the budget at the start of an attempt (lines 454-456)
InitialBudget(meta) ==
  LET initial_budget == parse_task_metadata(meta, "TURNS_ESTIMATED",
                                            DEFAULT_TURNS_ESTIMATED)
      soft == IF initial_budget.n >= MinSoftAtStart
              THEN initial_budget.n ELSE MinSoftAtStart
  IN  [raised |-> ~initial_budget.isInt, soft |-> soft, hard |-> soft * 2]

\* the budget after a request_turn_budget call with arguments args
\* (lines 479-494); an argument that int() rejects leaves the budget alone
UpdatedBudget(soft, hard, args) ==
  IF args.has /\ ~IsIntText(args.est)
  THEN [soft |-> soft, hard |-> hard]
  ELSE LET est == IF args.has THEN ParseInt(args.est) ELSE DefaultEstimatedTurns
           new_soft == IF est >= MinSoftOnUpdate THEN est ELSE MinSoftOnUpdate
       IN  [soft |-> new_soft, hard |-> new_soft * 2]

\* str(exception) of the errors a unit can raise
HardLimitMessage(hard) ==
  <<"Task exceeded hard limit (">> \o StrOfNat(hard) \o <<")">>

TypeErrorMessage == <<"'>' not supported between instances of 'str' and 'int'">>

RateLimitMessages ==
  { <<"4", "2", "9">> \o <<" RESOURCE_EXHAUSTED">>,
    <<"ResourceExhausted">>,
    <<"Quota exceeded">> \o <<" for quota metric">> }

AgentErrorMessage == <<"Agent stream failed">>

\* retry_predicate(exception) on e_str = str(exception)
retry_predicate(e_str) ==
  \/ Contains(e_str, <<"4", "2", "9">>)
  \/ Contains(e_str, <<"ResourceExhausted">>)
  \/ Contains(e_str, <<"Quota exceeded">>)

\* ------------------------------------------------------------------ Init
NoEvent == [kind |-> "init", w |-> 0, t |-> 0, exc |-> FALSE]

InitLedgers ==
  {l \in [Tasks -> [mark : {" "}, desc : WrittenDescs, meta : {NoMeta}, annot : {""}]] :
     \A i \in Tasks : l[i].desc \in {PlainDesc(i), HarmDesc(i)}}

\* no unit is running and no ledger call is in progress
InitUnitOff ==
  /\ unitPc = "off"
  /\ turn_count = 0
  /\ soft_limit = 0
  /\ hard_limit = 0
  /\ attempt_number = 0
  /\ task_meta = <<>>
  /\ reqLog = "none"

InitApiOff == callers = <<>>

\* no run_cycle is in progress and no output is being validated
CycleOff ==
  [pc |-> "off", loop_count |-> 0, sprint_state |-> "", tasks_run |-> 0,
   defects_found |-> FALSE, qa_finished |-> 0, demo_runs |-> 0, retro_runs |-> 0]

NoOutput == [pc |-> "off", text |-> <<>>, is_valid |-> TRUE, findings |-> <<>>,
             harmful |-> FALSE, sanitized |-> <<>>]

\* no locked mutation is in progress
LockOff == [msvcrt |-> TRUE, holder |-> 0, header |-> "", ctx |-> {}, calls |-> <<>>]

\* the directories are not looked at
FilesOff == [pc |-> "off"]

InitToolsOff ==
  /\ locking = LockOff
  /\ files = FilesOff

InitPhaseOff ==
  /\ cycle = CycleOff
  /\ output = NoOutput
  /\ InitToolsOff

FreshTracker_CarriedOver == tracker

\* task_retry_tracker = {} (line 267): .get(desc, 0) is 0 for every description
FreshTracker == [d \in AllDescs |-> 0]

InitSched ==
  /\ mainPc = "idle"
  /\ passNo = 0
  /\ queue = <<>>
  /\ unfinished = 0
  /\ finished = TRUE
  /\ pc = [w \in WorkerIds |-> "none"]
  /\ item = [w \in WorkerIds |-> NoTask]
  /\ turnsBound = [w \in WorkerIds |-> FALSE]
  /\ cancelReq = [w \in WorkerIds |-> FALSE]
  /\ tracker = [d \in AllDescs |-> 0]
  /\ enqueued = {}
  /\ invoked = [t \in Tasks |-> 0]
  /\ shorted = {}
  /\ ev = NoEvent

Init ==
  /\ ledger \in InitLedgers
  /\ guardrailsOn \in BOOLEAN
  /\ profileOn \in BOOLEAN
  /\ concurrency \in 1..MaxC
  /\ InitSched
  /\ window_size = DefaultWindowSize
  /\ failure_threshold = DefaultFailureThreshold
  /\ recent_actions = <<>>
  /\ history = <<>>
  /\ InitUnitOff
  /\ InitApiOff
  /\ InitPhaseOff

\* --------------------------------------------------------------- actions
\* run_parallel_execution up to "await queue.join()" (lines 228-609)
StartPass ==
  /\ mainPc = "idle"
  /\ passNo < MaxPasses
  /\ passNo' = passNo + 1
  /\ LET tasks_to_execute == parse_sprint_tasks(ledger, 1)
     IN  IF tasks_to_execute = <<>>
         THEN /\ ev' = [kind |-> "no_tasks", w |-> 0, t |-> 0, exc |-> FALSE]
              /\ enqueued' = {}
              /\ UNCHANGED <<mainPc, queue, unfinished, finished, pc, item,
                             turnsBound, cancelReq, tracker, invoked, shorted>>
         ELSE /\ mainPc' = "join"
              /\ queue' = tasks_to_execute
              /\ unfinished' = Len(tasks_to_execute)
              /\ finished' = FALSE
              /\ tracker' = FreshTracker
              /\ enqueued' = {tasks_to_execute[i].idx : i \in 1..Len(tasks_to_execute)}
              /\ invoked' = [t \in Tasks |-> 0]
              /\ shorted' = {}
              /\ pc' = [w \in WorkerIds |->
                          IF w \in WorkersCreated(concurrency) THEN "start" ELSE "none"]
              /\ item' = [w \in WorkerIds |-> NoTask]
              /\ turnsBound' = [w \in WorkerIds |-> FALSE]
              /\ cancelReq' = [w \in WorkerIds |-> FALSE]
              /\ ev' = [kind |-> "start_pass", w |-> 0, t |-> 0, exc |-> FALSE]
  /\ UNCHANGED <<ledger, cfgVars, cbVars>>
  /\ UNCHANGED <<unitVars, apiVars, phaseVars>>

\* first step of worker(w); tasks start in creation order
WorkerStart(w) ==
  /\ pc[w] = "start"
  /\ \A v \in WorkerIds : v < w => pc[v] # "start"
  /\ Continue(w, SyncState, "worker_start", 0)
  /\ UNCHANGED <<cfgVars, mainPc, passNo, turnsBound, cancelReq, enqueued,
                 window_size, failure_threshold, history>>
  /\ UNCHANGED <<unitVars, apiVars, phaseVars>>

\* the agent's event stream ends and run_agent returns
AgentSuccess(w) ==
  /\ pc[w] = "stream"
  /\ ~cancelReq[w]
  /\ turnsBound' = [turnsBound EXCEPT ![w] = TRUE]
  /\ Continue(w, OnSuccess(SyncState, item[w], TurnsPerStream), "success", item[w].idx)
  /\ UNCHANGED <<cfgVars, mainPc, passNo, cancelReq, enqueued,
                 window_size, failure_threshold, history>>
  /\ UNCHANGED <<unitVars, apiVars, phaseVars>>

\* run_agent raises (hard limit, agent error, rate limit exhausted)
AgentFail(w) ==
  /\ pc[w] = "stream"
  /\ ~cancelReq[w]
  /\ Continue(w, OnFailure(SyncState, item[w], turnsBound[w]), "fail", item[w].idx)
  /\ UNCHANGED <<cfgVars, mainPc, passNo, turnsBound, cancelReq, enqueued,
                 window_size, failure_threshold, history>>
  /\ UNCHANGED <<unitVars, apiVars, phaseVars>>

\* the CancelledError of w.cancel() is thrown at the worker's suspension point
CancelAtGet(w) ==
  /\ cancelReq[w]
  /\ pc[w] = "wait"
  /\ pc' = [pc EXCEPT ![w] = "done"]
  /\ cancelReq' = [cancelReq EXCEPT ![w] = FALSE]
  /\ ev' = [kind |-> "cancelled", w |-> w, t |-> 0, exc |-> FALSE]
  /\ UNCHANGED <<ledger, cfgVars, cbVars, mainPc, passNo, queue, unfinished,
                 finished, item, turnsBound, tracker, enqueued, invoked, shorted>>
  /\ UNCHANGED <<unitVars, apiVars, phaseVars>>

CancelInStream(w) ==
  /\ cancelReq[w]
  /\ pc[w] = "stream"
  /\ cancelReq' = [cancelReq EXCEPT ![w] = FALSE]
  /\ \E s \in {OnCancelInStream(SyncState)} :
         IF s.exc
         THEN Continue(w, s, "cancel_swallowed", item[w].idx)
         ELSE /\ Commit(s)
              /\ pc' = [pc EXCEPT ![w] = "done"]
              /\ item' = [item EXCEPT ![w] = NoTask]
              /\ ev' = [kind |-> "cancelled", w |-> w, t |-> item[w].idx, exc |-> FALSE]
  /\ UNCHANGED <<cfgVars, mainPc, passNo, turnsBound, enqueued,
                 window_size, failure_threshold, history>>
  /\ UNCHANGED <<unitVars, apiVars, phaseVars>>

\* queue.join() returns; every worker is cancelled (lines 609-613)
JoinReturn ==
  /\ mainPc = "join"
  /\ finished
  /\ \A w \in WorkerIds : pc[w] # "start"
  /\ mainPc' = "gather"
  /\ cancelReq' = [w \in WorkerIds |-> pc[w] \in {"wait", "stream"}]
  /\ ev' = [kind |-> "join_returned", w |-> 0, t |-> 0, exc |-> FALSE]
  /\ UNCHANGED <<ledger, cfgVars, cbVars, passNo, queue, unfinished, finished,
                 pc, item, turnsBound, tracker, enqueued, invoked, shorted>>
  /\ UNCHANGED <<unitVars, apiVars, phaseVars>>

\* asyncio.gather(*workers) completes; run_parallel_execution returns
GatherReturn ==
  /\ mainPc = "gather"
  /\ \A w \in WorkerIds : pc[w] \in {"none", "done"}
  /\ mainPc' = "idle"
  /\ ev' = [kind |-> "returned", w |-> 0, t |-> 0, exc |-> FALSE]
  /\ UNCHANGED <<ledger, cfgVars, cbVars, passNo, queue, unfinished, finished,
                 pc, item, turnsBound, cancelReq, tracker, enqueued, invoked,
                 shorted>>
  /\ UNCHANGED <<unitVars, apiVars, phaseVars>>

Next ==
  \/ StartPass
  \/ \E w \in WorkerIds : WorkerStart(w)
  \/ \E w \in WorkerIds : AgentSuccess(w)
  \/ \E w \in WorkerIds : AgentFail(w)
  \/ \E w \in WorkerIds : CancelAtGet(w)
  \/ \E w \in WorkerIds : CancelInStream(w)
  \/ JoinReturn
  \/ GatherReturn

Spec == Init /\ [][Next]_vars

\* The event loop runs every task that is ready, and every agent stream ends.
Fairness ==
  /\ \A w \in WorkerIds : WF_vars(WorkerStart(w))
  /\ \A w \in WorkerIds : WF_vars(AgentSuccess(w) \/ AgentFail(w))
  /\ \A w \in WorkerIds : WF_vars(CancelAtGet(w))
  /\ \A w \in WorkerIds : WF_vars(CancelInStream(w))
  /\ WF_vars(JoinReturn)
  /\ WF_vars(GatherReturn)

\* SprintRunner.__init__ always builds the guardrails and the profile manager
InitFair ==
  /\ ledger \in InitLedgers
  /\ guardrailsOn = TRUE
  /\ profileOn = TRUE
  /\ concurrency \in 1..MaxC
  /\ InitSched
  /\ window_size = DefaultWindowSize
  /\ failure_threshold = DefaultFailureThreshold
  /\ recent_actions = <<>>
  /\ history = <<>>
  /\ InitUnitOff
  /\ InitApiOff
  /\ InitPhaseOff

FairSpec == InitFair /\ [][Next]_vars /\ Fairness

\* ------------------------------------------- the circuit breaker alone
CBActionA == PlainDesc(1)

CBActionB == PlainDesc(2)

\* the (action, success) pairs recorded in SpecCB
CBInputs == {<<CBActionA, TRUE>>, <<CBActionA, FALSE>>, <<CBActionB, FALSE>>}

InitCB ==
  /\ ledger \in {l \in InitLedgers : \A i \in Tasks : l[i].desc = PlainDesc(i)}
  /\ guardrailsOn = TRUE
  /\ profileOn = TRUE
  /\ concurrency = 1
  /\ InitSched
  /\ window_size = DefaultWindowSize
  /\ failure_threshold = DefaultFailureThreshold
  /\ recent_actions = <<>>
  /\ history = <<>>
  /\ InitUnitOff
  /\ InitApiOff
  /\ InitPhaseOff

\* CircuitBreaker.record_action(action, success)
CBRecord(action, success) ==
  /\ Len(history) < MaxRecords
  /\ recent_actions' = record_action(recent_actions, window_size, action, success)
  /\ history' = Append(history, <<Fingerprint(action), success>>)
  /\ ev' = [kind |-> "record", w |-> 0, t |-> 0, exc |-> FALSE]
  /\ UNCHANGED <<ledger, cfgVars, schedVars, window_size, failure_threshold>>
  /\ UNCHANGED <<unitVars, apiVars, phaseVars>>

NextCB == \E in \in CBInputs : CBRecord(in[1], in[2])

SpecCB == InitCB /\ [][NextCB]_vars

\* --------------------------------------- one unit (run_agent) in detail
UnitWorker == 1

Text100 == <<"1", "0", "0">>

\* the "[...]" block of the first task's description
MetaChoices ==
  { <<>>,
    << <<"TURNS_ESTIMATED", <<"1", "0">> >> >>,
    << <<"POINTS", <<"8">> >>, <<"TURNS_ESTIMATED", <<"6", "0">> >> >>,
    << <<"TURNS_ESTIMATED", <<"m", "a", "n", "y">> >> >> }

\* events of runner.run_async: a text part, or a request_turn_budget call
\* with its 'estimated_turns' argument (absent, a number, not a number)
StreamEvents ==
  { [call |-> FALSE, has |-> FALSE, est |-> <<>>],
    [call |-> TRUE, has |-> FALSE, est |-> <<>>],
    [call |-> TRUE, has |-> TRUE, est |-> Text100],
    [call |-> TRUE, has |-> TRUE, est |-> <<"5">>],
    [call |-> TRUE, has |-> TRUE, est |-> <<"l", "o", "t", "s">>] }

\* an estimate whose doubled value reads "4290"
MetaLarge == << <<"TURNS_ESTIMATED", <<"2", "1", "4", "5">> >> >>

InitUnitWith(metas) ==
  /\ ledger \in {l \in InitLedgers : \A i \in Tasks : l[i].desc = PlainDesc(i)}
  /\ guardrailsOn = TRUE
  /\ profileOn \in BOOLEAN
  /\ concurrency = 1
  /\ InitSched
  /\ window_size = DefaultWindowSize
  /\ failure_threshold = DefaultFailureThreshold
  /\ recent_actions = <<>>
  /\ history = <<>>
  /\ unitPc = "off"
  /\ turn_count = 0
  /\ soft_limit = 0
  /\ hard_limit = 0
  /\ attempt_number = 0
  /\ task_meta \in metas
  /\ reqLog = "none"
  /\ InitApiOff
  /\ InitPhaseOff

InitUnit == InitUnitWith(MetaChoices)

InitUnitLarge == InitUnitWith({MetaLarge}) /\ profileOn

UnitEv(kind) == [kind |-> kind, w |-> UnitWorker, t |-> item[UnitWorker].idx, exc |-> TRUE]

\* an exception leaves run_agent: the retry_decorator sleeps and calls it
\* again, or re-raises into the worker's failure handler
UnitRaise(e_str, kind, attempt) ==
  IF retry_predicate(e_str) /\ attempt < StopAfterAttempt
  THEN /\ unitPc' = "backoff"
       /\ ev' = UnitEv(kind)
       /\ UNCHANGED <<ledger, schedVars, recent_actions>>
  ELSE /\ unitPc' = "failed"
       /\ Continue(UnitWorker,
                   OnFailure(SyncState, item[UnitWorker], turnsBound[UnitWorker]),
                   kind, item[UnitWorker].idx)
       /\ UNCHANGED <<mainPc, passNo, turnsBound, cancelReq, enqueued>>

ExceedsHard_AtLimit(count, hard) == count >= hard

\* "if turn_count > hard_limit" (line 504)
ExceedsHard(count, hard) == count > hard

TurnCountAtStart_Kept(prev) == prev

\* "turn_count = 0" (line 452), the first statement of every attempt
TurnCountAtStart(prev) == 0

\* run_agent is called: first attempt, or the next one after the backoff
AttemptStart ==
  /\ pc[UnitWorker] = "stream"
  /\ unitPc \in {"off", "backoff"}
  /\ attempt_number' = IF unitPc = "off" THEN 1 ELSE attempt_number + 1
  /\ turn_count' = TurnCountAtStart(turn_count)
  /\ reqLog' = "none"
  /\ \E b \in {InitialBudget(task_meta)} :
        IF b.raised
        THEN /\ UNCHANGED <<soft_limit, hard_limit>>
             /\ UnitRaise(TypeErrorMessage, "type_error", attempt_number')
        ELSE /\ soft_limit' = b.soft
             /\ hard_limit' = b.hard
             /\ unitPc' = "run"
             /\ ev' = [kind |-> "attempt", w |-> UnitWorker,
                       t |-> item[UnitWorker].idx, exc |-> FALSE]
             /\ UNCHANGED <<ledger, schedVars, recent_actions>>
  /\ UNCHANGED <<cfgVars, window_size, failure_threshold, history,
                 task_meta, apiVars, phaseVars>>

\* one event of the stream: count it, apply a budget request, enforce
UnitEvent(e) ==
  /\ pc[UnitWorker] = "stream"
  /\ unitPc = "run"
  /\ turn_count' = turn_count + 1
  /\ reqLog' = IF ~e.call THEN reqLog
               ELSE IF reqLog = "none" /\ turn_count' = 10 /\ e.has /\ e.est = Text100
               THEN "only100at10" ELSE "other"
  /\ \E b \in {IF e.call THEN UpdatedBudget(soft_limit, hard_limit, e)
               ELSE [soft |-> soft_limit, hard |-> hard_limit]} :
        /\ soft_limit' = b.soft
        /\ hard_limit' = b.hard
        /\ IF ExceedsHard(turn_count', b.hard)
           THEN UnitRaise(HardLimitMessage(b.hard), "hard_limit", attempt_number)
           ELSE /\ unitPc' = "run"
                /\ ev' = [kind |-> IF turn_count' > b.soft THEN "warn" ELSE "turn",
                          w |-> UnitWorker, t |-> item[UnitWorker].idx,
                          exc |-> FALSE]
                /\ UNCHANGED <<ledger, schedVars, recent_actions>>
  /\ UNCHANGED <<cfgVars, window_size, failure_threshold, history,
                 attempt_number, task_meta, apiVars, phaseVars>>

\* the stream raises: a rate-limit error of the model API, or another error
StreamError(e_str) ==
  /\ pc[UnitWorker] = "stream"
  /\ unitPc = "run"
  /\ UnitRaise(e_str, IF e_str \in RateLimitMessages THEN "rate_limit"
                      ELSE "agent_error", attempt_number)
  /\ UNCHANGED <<cfgVars, window_size, failure_threshold, history,
                 turn_count, soft_limit, hard_limit, attempt_number,
                 task_meta, reqLog, apiVars, phaseVars>>

\* the stream ends: run_agent returns turn_count, the success branch runs
StreamEnd ==
  /\ pc[UnitWorker] = "stream"
  /\ unitPc = "run"
  /\ unitPc' = "ok"
  /\ turnsBound' = [turnsBound EXCEPT ![UnitWorker] = TRUE]
  /\ Continue(UnitWorker, OnSuccess(SyncState, item[UnitWorker], turn_count),
              "success", item[UnitWorker].idx)
  /\ UNCHANGED <<cfgVars, mainPc, passNo, cancelReq, enqueued,
                 window_size, failure_threshold, history,
                 turn_count, soft_limit, hard_limit, attempt_number,
                 task_meta, reqLog, apiVars, phaseVars>>

NextUnit ==
  \/ StartPass
  \/ \E w \in WorkerIds : WorkerStart(w)
  \/ AttemptStart
  \/ \E e \in StreamEvents : UnitEvent(e)
  \/ \E e_str \in RateLimitMessages \cup {AgentErrorMessage} : StreamError(e_str)
  \/ StreamEnd

SpecUnit == InitUnit /\ [][NextUnit]_vars

SpecUnitLarge == InitUnitLarge /\ [][NextUnit]_vars

\* ---------------------- update_sprint_task_status called concurrently
\* Each caller (a thread, a process or a task) runs the function's file
\* operations in order; nothing in the function orders them between callers.
\* open(..., 'w') empties the file, the lines reach it when the file is
\* flushed and closed.
Callers == 1..MaxCallers

IdleCall == [pc |-> "idle", desc |-> <<>>, status |-> <<>>, reason |-> "", snap |-> <<>>]

ApiStatuses == {StatusDone, StatusInProgress, StatusBlocked}

ApiReasons == {"", "port in use"}

InitLedgerApi ==
  /\ ledger \in {l \in InitLedgers : \A i \in Tasks : l[i].desc = PlainDesc(i)}
  /\ guardrailsOn = TRUE
  /\ profileOn = TRUE
  /\ concurrency = 1
  /\ InitSched
  /\ window_size = DefaultWindowSize
  /\ failure_threshold = DefaultFailureThreshold
  /\ recent_actions = <<>>
  /\ history = <<>>
  /\ InitUnitOff
  /\ callers = [c \in Callers |-> IdleCall]
  /\ InitPhaseOff

ApiEv(kind, c) == [kind |-> kind, w |-> c, t |-> 0, exc |-> FALSE]

ApiStep(c, kind, call) ==
  /\ callers' = [callers EXCEPT ![c] = call]
  /\ ev' = ApiEv(kind, c)
  /\ UNCHANGED <<cfgVars, schedVars, cbVars, unitVars, phaseVars>>

\* where a call goes after its status write: the blocker-reason rewrite
\* (line 589), or the return
AfterStatusWrite(call) == IF call.reason # "" THEN "called2" ELSE "done"

\* the call and its validation (lines 554-570)
ApiCall(c, d, st, reason) ==
  /\ callers[c].pc = "idle"
  /\ ApiStep(c, "api_call",
             [pc |-> IF st = StatusBlocked /\ reason = "" THEN "raised" ELSE "called",
              desc |-> d, status |-> st, reason |-> reason, snap |-> <<>>])
  /\ UNCHANGED ledger

\* update_task_status_in_file reads the file and matches (lines 158-196)
ApiRead1(c) ==
  /\ callers[c].pc = "called"
  /\ \E upd \in {update_task_status_in_file(ledger, callers[c].desc,
                                            callers[c].status)} :
        ApiStep(c, "api_read",
                [callers[c] EXCEPT
                   !.snap = ledger,
                   !.pc = IF ~upd.found THEN "notfound"
                          ELSE IF upd.lines = ledger THEN AfterStatusWrite(callers[c])
                          ELSE "write1"])
  /\ UNCHANGED ledger

\* the second read, for the blocker reason (lines 591-592)
ApiRead2(c) ==
  /\ callers[c].pc = "called2"
  /\ ApiStep(c, "api_read", [callers[c] EXCEPT !.snap = ledger, !.pc = "write2"])
  /\ UNCHANGED ledger

\* open(sprint_file, 'w') (metadata line 204, tools line 602)
ApiTruncate(c) ==
  /\ callers[c].pc \in {"write1", "write2"}
  /\ ledger' = <<>>
  /\ ApiStep(c, "api_truncate",
             [callers[c] EXCEPT !.pc = IF @ = "write1" THEN "flush1" ELSE "flush2"])

\* f.writelines(lines) and the close of the file
ApiFlush(c) ==
  /\ callers[c].pc \in {"flush1", "flush2"}
  /\ LET call == callers[c]
     IN  IF call.pc = "flush1"
         THEN /\ ledger' = update_task_status_in_file(call.snap, call.desc,
                                                      call.status).lines
              /\ ApiStep(c, "api_write",
                         [call EXCEPT !.pc = AfterStatusWrite(call)])
         ELSE /\ ledger' = AppendBlockerReason(call.snap, call.desc,
                                               call.status, call.reason)
              /\ ApiStep(c, "api_write", [call EXCEPT !.pc = "done"])

\* the write fails or the caller is interrupted after the file was opened
ApiWriteFails(c) ==
  /\ callers[c].pc \in {"flush1", "flush2"}
  /\ ApiStep(c, "api_write_failed", [callers[c] EXCEPT !.pc = "crashed"])
  /\ UNCHANGED ledger

NextLedger ==
  \/ \E c \in Callers : \E i \in Tasks : \E st \in ApiStatuses :
        \E reason \in ApiReasons : ApiCall(c, PlainDesc(i), st, reason)
  \/ \E c \in Callers : ApiRead1(c)
  \/ \E c \in Callers : ApiRead2(c)
  \/ \E c \in Callers : ApiTruncate(c)
  \/ \E c \in Callers : ApiFlush(c)
  \/ \E c \in Callers : ApiWriteFails(c)

SpecLedger == InitLedgerApi /\ [][NextLedger]_vars

\* ------------------ update_sprint_task_status called again and again
\* One caller; every call runs to its end before the next one starts.
\* callers[1] keeps the last call: its arguments, the file before it, and
\* whether the call before it had the same arguments.
AllStatuses == {StatusTodo, StatusInProgress, StatusBlocked, StatusDone, StatusDefect}

InitSeq ==
  /\ ledger = [i \in Tasks |-> [mark |-> " ", desc |-> SimilarDesc(i), meta |-> NoMeta, annot |-> ""]]
  /\ guardrailsOn = TRUE
  /\ profileOn = TRUE
  /\ concurrency = 1
  /\ InitSched
  /\ window_size = DefaultWindowSize
  /\ failure_threshold = DefaultFailureThreshold
  /\ recent_actions = <<>>
  /\ history = <<>>
  /\ InitUnitOff
  /\ callers = <<>>
  /\ InitPhaseOff

SameCallAsLast(d, st, reason) ==
  /\ callers # <<>>
  /\ callers[1].desc = d
  /\ callers[1].status = st
  /\ callers[1].reason = reason

\* update_sprint_task_status(d, st, blocker_reason = reason, sprint_dir = ...)
ApiUpdate(d, st, reason) ==
  /\ \E r \in {update_sprint_task_status(ledger, d, st, reason, SprintDirPath)} :
        /\ ledger' = r.lines
        /\ ev' = [kind |-> "api_update", w |-> 0, t |-> 0, exc |-> r.raised]
  /\ callers' = << [pc |-> IF SameCallAsLast(d, st, reason) THEN "again" ELSE "first",
                    desc |-> d, status |-> st, reason |-> reason, snap |-> ledger] >>
  /\ UNCHANGED <<cfgVars, schedVars, cbVars, unitVars, phaseVars>>

NextSeq ==
  \E i \in Tasks : \E st \in AllStatuses : \E reason \in ApiReasons :
     ApiUpdate(SimilarDesc(i), st, reason)

SpecSeq == InitSeq /\ [][NextSeq]_vars

\* ------------------------------ one ledger edit on a ledger with blocks
\* One call of update_sprint_task_status or update_task_metadata_in_file on
\* a ledger whose lines carry similar descriptions, metadata blocks and
\* blocked annotations.  callers[1] keeps the call: its arguments, the line
\* the query was taken from (0: no line), the file before the call, the line
\* the fuzzy match resolved to and what the call returned.
SampleMeta == <<"POINTS", ":", "8", "|", "TURNS_ESTIMATED", ":", "60">>

OldReason == "db down"

EditLedgers ==
  {l \in [Tasks -> [mark : {" ", "!", "x"}, desc : {SimilarDesc(i) : i \in Tasks},
                    meta : {NoMeta, SampleMeta}, annot : {"", OldReason}]] :
     /\ \E f \in Permutations(Tasks) : \A i \in Tasks : l[i].desc = SimilarDesc(f[i])
     /\ \A i \in Tasks : l[i].annot # "" => l[i].mark = "!"}

UnrelatedDesc == <<"deploy">>

\* the query of a caller that read line i with parse_sprint_tasks, with the
\* metadata block or with the block stripped
QueryFor(lines, i, withMeta) ==
  IF i = 0 THEN UnrelatedDesc
  ELSE IF withMeta THEN ParsedDesc(lines[i]) ELSE lines[i].desc

NewMetadataChoices ==
  { << [k |-> <<"TURNS_USED">>, v |-> <<"5">>] >>,
    << [k |-> <<"POINTS">>, v |-> <<"13">>] >>,
    << [k |-> <<"POINTS">>, v |-> <<"13">>], [k |-> <<"TURNS_USED">>, v |-> <<"5">>] >> }

InitEdit ==
  /\ ledger \in EditLedgers
  /\ guardrailsOn = TRUE
  /\ profileOn = TRUE
  /\ concurrency = 1
  /\ InitSched
  /\ window_size = DefaultWindowSize
  /\ failure_threshold = DefaultFailureThreshold
  /\ recent_actions = <<>>
  /\ history = <<>>
  /\ InitUnitOff
  /\ callers = <<>>
  /\ InitPhaseOff

EditLog(op, i, q, st, reason, kv, found, raised) ==
  /\ callers' = << [pc |-> op, line |-> i, desc |-> q, status |-> st,
                    reason |-> reason, kv |-> kv, snap |-> ledger,
                    hit |-> BestIdx(ledger, q),
                    found |-> found, raised |-> raised] >>
  /\ ev' = [kind |-> op, w |-> 0, t |-> i, exc |-> raised]
  /\ UNCHANGED <<cfgVars, schedVars, cbVars, unitVars, phaseVars>>

\* update_sprint_task_status(q, st, blocker_reason = reason, sprint_dir)
EditStatus(i, withMeta, st, reason) ==
  /\ callers = <<>>
  /\ \E q \in {QueryFor(ledger, i, withMeta)} :
     \E r \in {update_sprint_task_status(ledger, q, st, reason, SprintDirPath)} :
        /\ ledger' = r.lines
        /\ EditLog("status", i, q, st, reason, <<>>,
                   ~r.raised /\ update_task_status_in_file(ledger, q, st).found,
                   r.raised)

\* update_task_metadata_in_file(sprint_file, q, kv)
EditMetadata(i, withMeta, kv) ==
  /\ callers = <<>>
  /\ \E q \in {QueryFor(ledger, i, withMeta)} :
     \E r \in {update_task_metadata_in_file(ledger, q, kv)} :
        /\ ledger' = r.lines
        /\ EditLog("metadata", i, q, StatusTodo, "", kv, r.found, FALSE)

NextEdit ==
  \/ \E i \in Tasks \cup {0} : \E withMeta \in BOOLEAN :
     \E st \in AllStatuses : \E reason \in ApiReasons :
        EditStatus(i, withMeta, st, reason)
  \/ \E i \in Tasks \cup {0} : \E withMeta \in BOOLEAN :
     \E kv \in NewMetadataChoices :
        EditMetadata(i, withMeta, kv)

SpecEdit == InitEdit /\ [][NextEdit]_vars

\* ------------------------------------------------ SprintRunner.run_cycle
\* One run_cycle: sprint-state validation, then Execution and QA repeated,
\* then Demo and Retrospective.  The Execution phase is the scheduling pass
\* of Spec (StartPass ... GatherReturn); QA, Demo and Retrospective are agent
\* runs that return or raise.  cycle.pc is the phase in progress.
\* max_loops = 3 (line 937)
MaxLoops == 3

CycleLedgers ==
  {<<>>} \cup
  {l \in [Tasks -> [mark : {" ", "x", "/", "!", "?"}, desc : WrittenDescs,
                    meta : {NoMeta}, annot : {""}]] :
     \A i \in Tasks : l[i].desc = PlainDesc(i)}

InitCycle ==
  /\ ledger \in CycleLedgers
  /\ guardrailsOn = TRUE
  /\ profileOn = TRUE
  /\ concurrency = 1
  /\ InitSched
  /\ window_size = DefaultWindowSize
  /\ failure_threshold = DefaultFailureThreshold
  /\ recent_actions = <<>>
  /\ history = <<>>
  /\ InitUnitOff
  /\ InitApiOff
  /\ cycle = [CycleOff EXCEPT !.pc = "start"]
  /\ output = NoOutput
  /\ InitToolsOff

CycleEv(kind) == [kind |-> kind, w |-> 0, t |-> 0, exc |-> FALSE]

CycleStep(kind, c) ==
  /\ cycle' = c
  /\ ev' = CycleEv(kind)
  /\ UNCHANGED <<ledger, cfgVars, schedVars, cbVars, unitVars, apiVars, output,
               locking, files>>

EarlyReturn_CompletedOnly(sprint_state) == sprint_state = "completed"

\* the two "return" branches of lines 918-925
EarlyReturn(sprint_state) == sprint_state \in {"completed", "needs_planning"}

\* lines 914-925: validate_sprint_state and the two early returns
CycleValidate ==
  /\ cycle.pc = "start"
  /\ \E st \in {validate_sprint_state(ledger)} :
        CycleStep("validated",
                  [cycle EXCEPT !.sprint_state = st,
                                !.pc = IF EarlyReturn(st) THEN "returned" ELSE "exec",
                                !.loop_count = IF EarlyReturn(st) THEN 0 ELSE 1])

\* lines 944-953: run_parallel_execution, one step of the pass
ExecStep ==
  /\ cycle.pc = "exec"
  /\ IF passNo < cycle.loop_count
     THEN StartPass
     ELSE \/ \E w \in WorkerIds : WorkerStart(w)
          \/ \E w \in WorkerIds : AgentSuccess(w)
          \/ \E w \in WorkerIds : AgentFail(w)
          \/ \E w \in WorkerIds : CancelAtGet(w)
          \/ \E w \in WorkerIds : CancelInStream(w)
          \/ JoinReturn
          \/ GatherReturn

\* run_parallel_execution returns len(tasks_to_execute) (0: no pending tasks)
ExecReturn ==
  /\ cycle.pc = "exec"
  /\ passNo = cycle.loop_count
  /\ mainPc = "idle"
  /\ CycleStep("exec_returned",
               [cycle EXCEPT !.pc = "qa", !.tasks_run = Cardinality(enqueued)])

AfterQA_Uncapped(c, defects_found) ==
  LET c1 == [c EXCEPT !.defects_found = defects_found,
                      !.qa_finished = @ + 1]
  IN  IF defects_found
      THEN [c1 EXCEPT !.pc = "exec", !.loop_count = @ + 1]
      ELSE [c1 EXCEPT !.pc = "demo"]

\* the position after the QA phase returned defects_found (lines 960-974):
\* continue while loop_count < max_loops, otherwise on to the Demo
AfterQA(c, defects_found) ==
  LET c1 == [c EXCEPT !.defects_found = defects_found,
                      !.qa_finished = @ + 1]
  IN  IF defects_found /\ c.loop_count < MaxLoops
      THEN [c1 EXCEPT !.pc = "exec", !.loop_count = @ + 1]
      ELSE [c1 EXCEPT !.pc = "demo"]

\* run_qa_phase returns: False at once when no task is done (lines 626-630),
\* otherwise whether the QA agent called add_sprint_task
QAReturn(defects_found) ==
  /\ cycle.pc = "qa"
  /\ defects_found => StatusCount(ledger, "done") > 0
  /\ CycleStep("qa_returned", AfterQA(cycle, defects_found))

\* the DevOps setup or the QA agent raises (turn limit, agent error)
QARaise ==
  /\ cycle.pc = "qa"
  /\ StatusCount(ledger, "done") > 0
  /\ CycleStep("qa_raised", [cycle EXCEPT !.pc = "aborted"])

DemoReturn ==
  /\ cycle.pc = "demo"
  /\ CycleStep("demo_returned", [cycle EXCEPT !.pc = "retro", !.demo_runs = @ + 1])

DemoRaise ==
  /\ cycle.pc = "demo"
  /\ CycleStep("demo_raised", [cycle EXCEPT !.pc = "aborted"])

RetroReturn ==
  /\ cycle.pc = "retro"
  /\ CycleStep("retro_returned", [cycle EXCEPT !.pc = "done", !.retro_runs = @ + 1])

RetroRaise ==
  /\ cycle.pc = "retro"
  /\ CycleStep("retro_raised", [cycle EXCEPT !.pc = "aborted"])

NextCycle ==
  \/ CycleValidate
  \/ ExecStep
  \/ ExecReturn
  \/ \E d \in BOOLEAN : QAReturn(d)
  \/ QARaise
  \/ DemoReturn
  \/ DemoRaise
  \/ RetroReturn
  \/ RetroRaise

SpecCycle == InitCycle /\ [][NextCycle]_vars

\* ------------------------------------- AgentGuardrails.validate_output
\* One call of validate_output on an agent output of up to MaxItems items
\* separated by blanks: a word, an e-mail address, a phone number, an IP
\* address, a destructive command, or "password=" followed by key material.
OutputItems ==
  { <<"call">>, <<EmailTok>>, <<PhoneTok>>, <<IpTok>>, <<"rm -rf /">>,
    <<KeywordTok, LongKeyTok>>, <<KeywordTok, PhoneTok, KeyTailTok>>,
    <<KeywordTok, PhoneTok>>, <<KeywordTok, "call">> }

RECURSIVE JoinItems(_)
JoinItems(items) ==
  IF items = <<>> THEN <<>>
  ELSE IF Len(items) = 1 THEN items[1]
  ELSE items[1] \o <<" ">> \o JoinItems(Tail(items))

OutputTexts ==
  {JoinItems(items) : items \in UNION {[1..n -> OutputItems] : n \in 1..MaxItems}}

InitOutput ==
  /\ ledger = <<>>
  /\ guardrailsOn = TRUE
  /\ profileOn = TRUE
  /\ concurrency = 1
  /\ InitSched
  /\ window_size = DefaultWindowSize
  /\ failure_threshold = DefaultFailureThreshold
  /\ recent_actions = <<>>
  /\ history = <<>>
  /\ InitUnitOff
  /\ InitApiOff
  /\ cycle = CycleOff
  /\ InitToolsOff
  /\ \E text \in OutputTexts :
        output = [NoOutput EXCEPT !.pc = "ready", !.text = text]

ValidateOutput ==
  /\ output.pc = "ready"
  /\ \E r \in {validate_output(output.text)} :
        output' = [pc |-> "done", text |-> output.text, is_valid |-> r.is_valid,
                   findings |-> r.findings, harmful |-> r.harmful,
                   sanitized |-> r.sanitized]
  /\ ev' = CycleEv("validate_output")
  /\ UNCHANGED <<ledger, cfgVars, schedVars, cbVars, unitVars, apiVars, cycle,
               locking, files>>

NextOutput == ValidateOutput

SpecOutput == InitOutput /\ [][NextOutput]_vars

\* ------------------------- passes over a ledger of descriptions alike
\* The scheduler of Spec on ledgers whose descriptions are pairwise
\* dissimilar, or contain one another (the shortest one last), or are the
\* same text under different roles; tasks are Todo or Blocked at the start.
AlikeLedgers ==
  {[i \in Tasks |-> [mark |-> m[i], desc |-> d[i], meta |-> NoMeta, annot |-> ""]] :
     m \in [Tasks -> {" ", "!"}],
     d \in {[i \in Tasks |-> PlainDesc(i)],
            [i \in Tasks |-> SimilarDesc(NumTasks + 1 - i)],
            [i \in Tasks |-> PlainDesc(1)]}}

InitAlike ==
  /\ ledger \in AlikeLedgers
  /\ guardrailsOn = TRUE
  /\ profileOn \in BOOLEAN
  /\ concurrency \in 1..MaxC
  /\ InitSched
  /\ window_size = DefaultWindowSize
  /\ failure_threshold = DefaultFailureThreshold
  /\ recent_actions = <<>>
  /\ history = <<>>
  /\ InitUnitOff
  /\ InitApiOff
  /\ InitPhaseOff

SpecAlike == InitAlike /\ [][Next]_vars

\* ----------------- one unit on a ledger whose first task is finished
\* The unit of SpecUnit (default budget) working on the second line of a
\* ledger whose first line is Done: the two descriptions are dissimilar,
\* or the first contains the second, or they are the same text.
UsageLedgers ==
  {[i \in Tasks |-> [mark |-> IF i = 1 THEN "x" ELSE m, desc |-> d[i],
                     meta |-> NoMeta, annot |-> ""]] :
     m \in {" ", "!"},
     d \in {[i \in Tasks |-> PlainDesc(i)],
            [i \in Tasks |-> SimilarDesc(NumTasks + 1 - i)],
            [i \in Tasks |-> PlainDesc(1)]}}

InitUsage ==
  /\ ledger \in UsageLedgers
  /\ guardrailsOn = TRUE
  /\ profileOn \in BOOLEAN
  /\ concurrency = 1
  /\ InitSched
  /\ window_size = DefaultWindowSize
  /\ failure_threshold = DefaultFailureThreshold
  /\ recent_actions = <<>>
  /\ history = <<>>
  /\ unitPc = "off"
  /\ turn_count = 0
  /\ soft_limit = 0
  /\ hard_limit = 0
  /\ attempt_number = 0
  /\ task_meta = <<>>
  /\ reqLog = "none"
  /\ InitApiOff
  /\ InitPhaseOff

SpecUsage == InitUsage /\ [][NextUnit]_vars

\* ------------- update_sprint_header and enrich_task_context under a lock
\* Each caller is a process running one of the two functions on the same
\* sprint file. The lock is msvcrt's lock of one byte at the position of
\* the file handle: byte 0 when it is taken, right after open.
max_retries_Six == 5 + 1

\* "max_retries = 5" (lines 465, 862)
max_retries == 5

\* "wait_time = 0.1 * (2 ** attempt)", in tenths of a second
wait_time(attempt) == 2 ^ attempt

NoCall == [pc |-> "idle", op |-> "", arg |-> <<>>, attempt |-> 0, wait |-> 0,
           result |-> ""]

InitLock ==
  /\ ledger \in {l \in InitLedgers : \A i \in Tasks : l[i].desc = PlainDesc(i)}
  /\ guardrailsOn = TRUE
  /\ profileOn = TRUE
  /\ concurrency = 1
  /\ InitSched
  /\ window_size = DefaultWindowSize
  /\ failure_threshold = DefaultFailureThreshold
  /\ recent_actions = <<>>
  /\ history = <<>>
  /\ InitUnitOff
  /\ InitApiOff
  /\ cycle = CycleOff
  /\ output = NoOutput
  /\ files = FilesOff
  /\ \E m \in BOOLEAN, h \in {<<>>, <<"Planned">>} :
        locking = [msvcrt |-> m, holder |-> 0, header |-> h, ctx |-> {},
                   calls |-> [c \in Callers |-> NoCall]]

LockStep(c, kind, l) ==
  /\ locking' = l
  /\ ev' = ApiEv(kind, c)
  /\ UNCHANGED <<ledger, cfgVars, schedVars, cbVars, unitVars, apiVars,
                 cycle, output, files>>

\* the function is called: "import msvcrt" (lines 444, 832) raises where
\* the module does not exist, otherwise the retry loop starts
LockedCall(c, op, arg) ==
  /\ locking.calls[c].pc = "idle"
  /\ LockStep(c, "call",
       [locking EXCEPT !.calls[c] =
          IF locking.msvcrt
          THEN [NoCall EXCEPT !.pc = "try", !.op = op, !.arg = arg]
          ELSE [NoCall EXCEPT !.pc = "raised", !.result = "ImportError"]])

\* the function returned: its locals are gone, the caller has the result
Returns(result) == [NoCall EXCEPT !.pc = "done", !.result = result]

\* the "except IOError" branch (lines 506-514, 900-907)
OnIOError(call) ==
  IF call.attempt < max_retries - 1
  THEN [call EXCEPT !.pc = "sleep", !.wait = wait_time(call.attempt)]
  ELSE Returns("Error: Failed after attempts")

\* msvcrt.locking(fd, LK_UNLCK, 1) at the handle's position: it unlocks
\* the byte only when the position is still 0; elsewhere it raises, and
\* the "except: pass" of lines 501-504 swallows that
AfterUnlock(holder, c, at_start) ==
  IF holder = c /\ at_start THEN 0 ELSE holder

\* leaving the "with open(...)" block closes the handle, and closing the
\* handle drops its locks
AfterClose(holder, c) == IF holder = c THEN 0 ELSE holder

\* open "r+" and msvcrt.locking(fd, LK_LOCK, 1): the lock is taken, or
\* OSError is raised after the byte stayed locked by another handle
TryLock(c) ==
  /\ locking.calls[c].pc = "try"
  /\ IF locking.holder = 0
     THEN LockStep(c, "locked",
            [locking EXCEPT !.holder = c, !.calls[c].pc = "held"])
     ELSE LockStep(c, "contention",
            [locking EXCEPT
               !.holder = AfterClose(AfterUnlock(@, c, TRUE), c),
               !.calls[c] = OnIOError(@)])

\* the lines of enrich_task_context that get a context block: every task
\* line that contains the description and is not followed by one
EnrichTargets(lines, ctx, task_description) ==
  {i \in 1..Len(lines) :
     Contains(LineTokens(lines[i]), task_description) /\ i \notin ctx}

\* the critical section (lines 476-498, 869-892) with its outcome, then
\* the "finally" unlock and the close of the file
Critical(c, fault) ==
  /\ locking.calls[c].pc = "held"
  /\ LET call == locking.calls[c]
         targets == EnrichTargets(ledger, locking.ctx, call.arg)
         found == IF call.op = "header" THEN locking.header # <<>>
                  ELSE targets # {}
         at_start == Len(ledger) = 0 /\ locking.header = <<>>
         released == AfterClose(AfterUnlock(locking.holder, c, at_start), c)
     IN  LockStep(c, IF fault = "none" THEN "critical" ELSE fault,
           IF fault = "IOError"
           THEN [locking EXCEPT !.holder = released, !.calls[c] = OnIOError(@)]
           ELSE IF fault = "Exception"
           THEN [locking EXCEPT !.holder = released,
                                !.calls[c] = Returns("Error updating sprint file")]
           ELSE IF ~found
           THEN [locking EXCEPT !.holder = released,
                                !.calls[c] = Returns("not found")]
           ELSE [locking EXCEPT !.holder = released,
                                !.header = IF call.op = "header" THEN call.arg ELSE @,
                                !.ctx = IF call.op = "header" THEN @ ELSE @ \cup targets,
                                !.calls[c] = Returns("Successfully updated")])

\* "await asyncio.sleep(wait_time)" is over: the next turn of the loop
Wake(c) ==
  /\ locking.calls[c].pc = "sleep"
  /\ LockStep(c, "wake",
       [locking EXCEPT !.calls[c].pc = "try", !.calls[c].attempt = @ + 1])

\* the caller has the result (or the exception) and may call again
CallOver(c) ==
  /\ locking.calls[c].pc \in {"done", "raised"}
  /\ LockStep(c, "over", [locking EXCEPT !.calls[c] = NoCall])

NextLock ==
  \/ \E c \in Callers : LockedCall(c, "header", <<"QA">>)
  \/ \E c \in Callers : LockedCall(c, "enrich", PlainDesc(1))
  \/ \E c \in Callers : TryLock(c)
  \/ \E c \in Callers, fault \in {"none", "IOError", "Exception"} : Critical(c, fault)
  \/ \E c \in Callers : Wake(c)
  \/ \E c \in Callers : CallOver(c)

SpecLock == InitLock /\ [][NextLock]_vars

\* --------------------------- which file each ledger operation acts on
\* File names are sequences of characters; a directory is its listing, or
\* does not exist. "root" is PROJECT_ROOT/project_tracking, "cwd" is
\* project_tracking under the working directory when that is another
\* directory; from PROJECT_ROOT/scripts the parent's project_tracking is
\* "root".
Sprint1Name == <<"S", "P", "R", "I", "N", "T", "_", "1", ".", "m", "d">>

Sprint2Name == <<"S", "P", "R", "I", "N", "T", "_", "2", ".", "m", "d">>

SprintReportName == <<"S", "P", "R", "I", "N", "T", "_", "R", "E", "P", "O", "R", "T", ".", "m", "d">>

QaReportName == <<"Q", "A", "_", "R", "E", "P", "O", "R", "T", ".", "m", "d">>

\* ord(c) of the characters of these names
Ord(c) ==
  CASE c = "." -> 46
    [] c = "1" -> 49
    [] c = "2" -> 50
    [] c = "A" -> 65
    [] c = "E" -> 69
    [] c = "I" -> 73
    [] c = "N" -> 78
    [] c = "O" -> 79
    [] c = "P" -> 80
    [] c = "Q" -> 81
    [] c = "R" -> 82
    [] c = "S" -> 83
    [] c = "T" -> 84
    [] c = "_" -> 95
    [] c = "d" -> 100
    [] c = "m" -> 109

StartsWith(s, prefix) ==
  Len(s) >= Len(prefix) /\ SubSeq(s, 1, Len(prefix)) = prefix

EndsWith(s, suffix) ==
  Len(s) >= Len(suffix) /\ SubSeq(s, Len(s) - Len(suffix) + 1, Len(s)) = suffix

\* a < b for Python strings
RECURSIVE StrLess(_, _)
StrLess(a, b) ==
  IF b = <<>> THEN FALSE
  ELSE IF a = <<>> THEN TRUE
  ELSE IF Head(a) = Head(b) THEN StrLess(Tail(a), Tail(b))
  ELSE Ord(Head(a)) < Ord(Head(b))

\* sprint_files.sort(); sprint_files[-1]   (<<>> for an empty list)
SortedLast(names) ==
  IF names = {} THEN <<>>
  ELSE CHOOSE n \in names : \A m \in names \ {n} : StrLess(m, n)

SprintPrefix == <<"S", "P", "R", "I", "N", "T", "_">>

MdSuffix == <<".", "m", "d">>

NoDir == [exists |-> FALSE, names |-> {}]

NoFile == [dir |-> "", name |-> <<>>]

detect_latest_sprint_file_WithReports(dirs, d) ==
  IF d = "" \/ ~dirs[d].exists THEN NoFile
  ELSE LET sprint_files == {f \in dirs[d].names :
                              StartsWith(f, SprintPrefix) /\ EndsWith(f, MdSuffix)}
       IN  IF sprint_files = {} THEN NoFile
           ELSE [dir |-> d, name |-> SortedLast(sprint_files)]

\* detect_latest_sprint_file(sprint_dir) (sprint_utils.py 4-17)
detect_latest_sprint_file(dirs, d) ==
  IF d = "" \/ ~dirs[d].exists THEN NoFile
  ELSE LET sprint_files == {f \in dirs[d].names :
                              /\ StartsWith(f, SprintPrefix)
                              /\ EndsWith(f, MdSuffix)
                              /\ ~Contains(f, <<"R", "E", "P", "O", "R", "T">>)}
       IN  IF sprint_files = {} THEN NoFile
           ELSE [dir |-> d, name |-> SortedLast(sprint_files)]

\* os.path.abspath(os.path.join(os.getcwd(), sprint_dir)) as a directory of
\* the model; an absolute sprint_dir is SprintConfig.get_sprint_dir()
ResolveDir(cwd, sprint_dir) ==
  IF sprint_dir = SprintDirPath THEN "root"
  ELSE IF cwd = "project_root" THEN "root"
  ELSE "cwd"

\* os.path.join(os.path.dirname(os.getcwd()), "project_tracking")
ParentDir(cwd) == IF cwd = "scripts" THEN "root" ELSE ""

\* the selection of update_sprint_header and add_sprint_task (sprint_tools.py
\* 446-463, 622-638): the parent's directory when the resolved one does not
\* exist, and every SPRINT_*.md file, reports included
LatestForTools(dirs, cwd, sprint_dir) ==
  LET d == ResolveDir(cwd, sprint_dir)
  IN  IF dirs[d].exists
      THEN detect_latest_sprint_file_WithReports(dirs, d)
      ELSE IF ParentDir(cwd) # "" /\ dirs[ParentDir(cwd)].exists
      THEN detect_latest_sprint_file_WithReports(dirs, ParentDir(cwd))
      ELSE NoFile

\* the selection of update_sprint_task_status (sprint_tools.py 574-580)
LatestForStatus(dirs, cwd, sprint_dir) ==
  detect_latest_sprint_file(dirs, ResolveDir(cwd, sprint_dir))

RootListings ==
  {[exists |-> TRUE, names |-> {Sprint1Name} \cup more] :
     more \in SUBSET {Sprint2Name, SprintReportName, QaReportName}}

CwdListings ==
  {NoDir} \cup {[exists |-> TRUE, names |-> n] : n \in SUBSET {Sprint1Name, Sprint2Name}}

InitFiles ==
  /\ ledger \in {l \in InitLedgers : \A i \in Tasks : l[i].desc = PlainDesc(i)}
  /\ guardrailsOn = TRUE
  /\ profileOn = TRUE
  /\ concurrency = 1
  /\ InitSched
  /\ window_size = DefaultWindowSize
  /\ failure_threshold = DefaultFailureThreshold
  /\ recent_actions = <<>>
  /\ history = <<>>
  /\ InitUnitOff
  /\ InitApiOff
  /\ cycle = CycleOff
  /\ output = NoOutput
  /\ locking = LockOff
  /\ \E cwd \in {"project_root", "scripts", "elsewhere"}, r \in RootListings,
        c \in CwdListings :
        /\ cwd = "scripts" => c = NoDir
        /\ cwd = "project_root" => c = r
        /\ files = [pc |-> "start", cwd |-> cwd,
                    dirs |-> [root |-> r, cwd |-> c],
                    parsed |-> NoFile, op |-> "", target |-> NoFile,
                    written |-> {}]

FilesStep(kind, f) ==
  /\ files' = f
  /\ ev' = [kind |-> kind, w |-> 0, t |-> 0, exc |-> FALSE]
  /\ UNCHANGED <<ledger, cfgVars, schedVars, cbVars, unitVars, apiVars,
                 cycle, output, locking>>

\* a call has chosen its file and written to it (no file: it returns an
\* error and writes nothing)
Acts(op, target) ==
  [files EXCEPT !.op = op, !.target = target,
                !.written = IF target = NoFile THEN @ ELSE @ \cup {target}]

\* run_cycle (lines 907-911): the file whose tasks every pass parses
RunCycleLocates ==
  /\ files.pc = "start"
  /\ \E f \in {detect_latest_sprint_file(files.dirs, "root")} :
        FilesStep("located",
                  [files EXCEPT !.parsed = f,
                                !.pc = IF f = NoFile THEN "returned" ELSE "run"])

\* the worker's guardrail and circuit writes: sprint_dir passed by keyword
\* (lines 303-307, 315-319)
StatusWriteShortCircuit ==
  /\ files.pc = "run"
  /\ FilesStep("status_keyword",
               Acts("status_keyword",
                    LatestForStatus(files.dirs, files.cwd, SprintDirPath)))

\* the worker's InProgress, Done and failure writes (lines 339, 534, 586):
\* the third positional argument is blocker_reason, sprint_dir keeps its
\* default
StatusWritePositional ==
  /\ files.pc = "run"
  /\ FilesStep("status_positional",
               Acts("status_positional",
                    LatestForStatus(files.dirs, files.cwd, DefaultSprintDir)))

\* record_turn_usage (sprint_tools.py 967)
TurnUsageWrite ==
  /\ files.pc = "run"
  /\ FilesStep("turn_usage",
               Acts("turn_usage", detect_latest_sprint_file(files.dirs, "root")))

\* an agent calls update_sprint_header or add_sprint_task, with the
\* default sprint_dir or with the sprint directory's path. add_sprint_task
\* always writes the file it chose (lines 652-666); update_sprint_header
\* writes it when it has a "**Status**:" line (lines 481-493)
ToolWrite(op, sprint_dir, has_header) ==
  /\ files.pc = "run"
  /\ op = "add_task" => has_header
  /\ \E f \in {LatestForTools(files.dirs, files.cwd, sprint_dir)} :
        FilesStep(op, IF op = "header" /\ ~has_header
                      THEN [files EXCEPT !.op = op, !.target = f]
                      ELSE Acts(op, f))

\* the Retrospective agent writes its report into the sprint directory
ReportWritten ==
  /\ files.pc = "run"
  /\ SprintReportName \notin files.dirs.root.names
  /\ FilesStep("report",
               [files EXCEPT !.dirs.root.names = @ \cup {SprintReportName},
                             !.op = "report", !.target = NoFile])

NextFiles ==
  \/ RunCycleLocates
  \/ StatusWriteShortCircuit
  \/ StatusWritePositional
  \/ TurnUsageWrite
  \/ \E op \in {"header", "add_task"}, d \in {DefaultSprintDir, SprintDirPath},
        has_header \in BOOLEAN :
        ToolWrite(op, d, has_header)
  \/ ReportWritten

SpecFiles == InitFiles /\ [][NextFiles]_vars

\* ================================================================ claims
InFlight == {w \in WorkerIds : pc[w] = "stream"}

InQueue(t) == \E i \in 1..Len(queue) : queue[i].idx = t

\* C1: when run_parallel_execution returns, every task enqueued at the start
\* of the pass is Done or Blocked in the ledger.
C1_PassLeavesDoneOrBlocked ==
  ev.kind = "returned" => \A t \in enqueued : ledger[t].mark \in {"x", "!"}

\* C2: queue.join() returns (and the workers are cancelled) only when the
\* queue is empty and no worker is still processing an item.
C2_ShutdownOnlyWhenDrained ==
  ev.kind = "join_returned" => queue = <<>> /\ InFlight = {}

\* C3: run_parallel_execution returns: no worker swallows its cancellation
\* and then waits on the empty queue while the gather waits for it.
C3_NoWorkerOutlivesCancel ==
  ~(mainPc = "gather" /\ queue = <<>>
      /\ \E w \in WorkerIds : pc[w] = "wait" /\ ~cancelReq[w])

\* C5: at every moment at most C (the concurrency limit) work items are
\* between dequeue and completion.
C5_AtMostCInFlight == Cardinality(InFlight) <= concurrency

C5_Witness == concurrency = 2 /\ Cardinality(InFlight) = 2

FailureMessage == "Task exceeded hard limit"

\* C6: when a unit fails, the scheduler marks the task Blocked in the ledger
\* with the failure message as its blocker reason.
C6_FailureMarksBlockedWithMessage ==
  ev.kind = "fail" =>
     /\ ledger[ev.t].mark = "!"
     /\ ledger[ev.t].annot = FailureMessage

\* C7: every task line has one status, and every Blocked task carries a
\* non-empty blocker reason.
C7_BlockedHasReason ==
  \A t \in Tasks :
     /\ ledger[t].mark \in {" ", "/", "!", "x"}
     /\ ledger[t].mark = "!" => ledger[t].annot # ""

C4_CrashedWorkerContinues ==
  /\ [](ev.exc => /\ pc[ev.w] \in {"wait", "stream"}
                  /\ pc[ev.w] = "wait" => queue = <<>>)
  /\ (queue # <<>>) ~> (queue = <<>>)

C4_Witness ==
  /\ ev.kind = "fail"
  /\ ev.exc
  /\ pc[ev.w] = "stream"
  /\ item[ev.w].idx # ev.t

\* ---- claims on the circuit breaker (SpecCB)
LastN(seq, n) == SubSeq(seq, Len(seq) - Min(n, Len(seq)) + 1, Len(seq))

FailuresInLast(seq, n, action) ==
  Cardinality({i \in 1..Len(seq) :
                 /\ i > Len(seq) - n
                 /\ seq[i] = <<Fingerprint(action), FALSE>>})

CBActions == {CBActionA, CBActionB}

\* C9: recording an outcome for one fingerprint never changes is_open of
\* another fingerprint.
C9_RecordLeavesOtherFingerprints ==
  [][\A a \in CBActions : \A b \in CBActions : \A ok \in BOOLEAN :
       (a # b /\ history' = Append(history, <<Fingerprint(a), ok>>))
          => (is_open(recent_actions', failure_threshold', b)
                <=> is_open(recent_actions, failure_threshold, b))]_vars

\* C10: the window holds the most recent outcomes only, at most window_size
\* of them, and is_open(f) holds exactly when at least failure_threshold (3)
\* failures of f are among the last window_size (10) outcomes recorded.
C10_WindowAndThreshold ==
  /\ Len(recent_actions) <= window_size
  /\ recent_actions = LastN(history, window_size)
  /\ \A a \in CBActions :
        is_open(recent_actions, failure_threshold, a)
           <=> FailuresInLast(history, DefaultWindowSize, a) >= DefaultFailureThreshold

C10_Witness ==
  /\ Len(history) > window_size
  /\ history[1] = <<Fingerprint(CBActionA), FALSE>>
  /\ FailuresInLast(history, DefaultWindowSize, CBActionA) = DefaultFailureThreshold
  /\ is_open(recent_actions, failure_threshold, CBActionA)
  /\ ~is_open(recent_actions, failure_threshold, CBActionB)

\* ---- claims on one unit (SpecUnit, SpecUnitLarge)
\* C11: a unit aborts on the hard limit exactly when its turn counter first
\* exceeds the hard limit in force at that turn; between the soft and the
\* hard limit it only warns.  With no metadata and no budget request turn 41
\* warns and turn 81 aborts; when the only request is
\* request_turn_budget(100) at turn 10, the abort comes at turn 201, not 81.
C11_HardLimitAbort ==
  /\ ev.kind = "hard_limit" => turn_count > hard_limit
  /\ unitPc = "run" => turn_count <= hard_limit
  /\ (unitPc = "run" /\ ev.kind \in {"turn", "warn"})
        => (ev.kind = "warn" <=> turn_count > soft_limit)
  /\ (task_meta = <<>> /\ reqLog = "none") =>
        /\ ev.kind = "hard_limit" => turn_count = 81
        /\ (turn_count = 41 /\ ev.kind \in {"turn", "warn"})
              => (unitPc = "run" /\ ev.kind = "warn")
  /\ (reqLog = "only100at10" /\ ev.kind = "hard_limit") => turn_count = 201

C11_Witness ==
  /\ reqLog = "only100at10"
  /\ task_meta = <<>>
  /\ turn_count = 81
  /\ unitPc = "run"
  /\ ev.kind = "turn"

\* C12: a request_turn_budget event never leaves the soft limit below the
\* minimum used at initialisation (40) nor the hard limit below 80, and an
\* event never resets the turn counter.
C12_UpdateKeepsMinimum ==
  /\ [](unitPc = "run" => (soft_limit >= 40 /\ hard_limit >= 80))
  /\ [][(unitPc = "run" /\ unitPc' = "run") => turn_count' = turn_count + 1]_vars

\* C12 (amended): a request_turn_budget event with a numeric estimate sets
\* soft = max(20, estimate) and hard = 2 * soft, so the soft limit never
\* drops below 20 nor the hard limit below 40, and the turn counter goes on
\* counting.
C12_UpdateMinimumTwenty ==
  /\ [](unitPc = "run" => (soft_limit >= 20 /\ hard_limit >= 40))
  /\ [][(unitPc = "run" /\ unitPc' = "run") => turn_count' = turn_count + 1]_vars
  /\ [][\A e \in StreamEvents :
          (UnitEvent(e) /\ e.call /\ e.has /\ IsIntText(e.est)) =>
             /\ soft_limit' = (IF ParseInt(e.est) > 20 THEN ParseInt(e.est) ELSE 20)
             /\ hard_limit' = 2 * soft_limit']_vars

C12_Witness ==
  /\ unitPc = "run"
  /\ task_meta # <<>>
  /\ turn_count = 30
  /\ soft_limit = 20
  /\ hard_limit = 40

\* C13: at the start of an attempt soft = max(40, TURNS_ESTIMATED or 40) and
\* hard = 2 * soft, and hard = 2 * soft at every later point of the attempt.
C13_InitialBudget ==
  /\ unitPc = "run" => hard_limit = 2 * soft_limit
  /\ (unitPc = "run" /\ turn_count = 0) =>
        LET est == parse_task_metadata(task_meta, "TURNS_ESTIMATED", 40).n
        IN  soft_limit = (IF est > 40 THEN est ELSE 40)

C13_Witness ==
  /\ unitPc = "run"
  /\ turn_count = 0
  /\ attempt_number = 2
  /\ soft_limit = 60
  /\ hard_limit = 120

\* C14: only a rate-limit error makes the retry wrapper run the unit again;
\* a hard-limit abort or any other error is never followed by a retry.
C14_OnlyRateLimitRetried == unitPc = "backoff" => ev.kind = "rate_limit"

\* C15: a rate-limited unit is run again from its start, at most 10 attempts
\* in all; a success after retries is handled as a success (Done, no failure
\* in the circuit breaker or the retry counter), and a unit rate-limited on
\* every attempt is handled as a failure exactly once.
C15_RateLimitRetry ==
  /\ [](attempt_number <= 10)
  /\ [](unitPc = "backoff" => attempt_number < 10)
  /\ [][unitPc = "backoff" => (turn_count' = 0 /\ attempt_number' = attempt_number + 1)]_vars
  /\ [](unitPc = "ok" =>
          /\ ledger[ev.t].mark = "x"
          /\ recent_actions = << <<Fingerprint(ledger[ev.t].desc), TRUE>> >>
          /\ tracker[ledger[ev.t].desc] = 0)
  /\ []((unitPc = "failed" /\ ev.kind = "rate_limit") =>
          /\ attempt_number = 10
          /\ recent_actions = << <<Fingerprint(ledger[ev.t].desc), FALSE>> >>)

C15_Witness ==
  /\ unitPc = "ok"
  /\ attempt_number = 10
  /\ ledger[ev.t].mark = "x"

\* ---- claims on concurrent ledger updates (SpecLedger)
Returned(c) == callers[c].pc \in {"done", "notfound", "raised"}

\* the line whose description is d
LineOf(d) == CHOOSE i \in Tasks : PlainDesc(i) = d

\* C16: when concurrent updates of distinct tasks have all returned, all of
\* them succeeded, each task shows its caller's status and the file has as
\* many lines as before.
C16_NoLostUpdate ==
  ( /\ \A c \in Callers : Returned(c) /\ callers[c].pc # "raised"
    /\ \A c1 \in Callers : \A c2 \in Callers :
          c1 # c2 => callers[c1].desc # callers[c2].desc )
  => /\ Len(ledger) = NumTasks
     /\ \A c \in Callers :
           /\ callers[c].pc = "done"
           /\ ledger[LineOf(callers[c].desc)].mark = callers[c].status[2]

\* C17: the read..write intervals of two ledger mutations never overlap
\* (each mutation holds an exclusive lock from its read to its write).
C17_MutationsDoNotOverlap ==
  Cardinality({c \in Callers :
                 callers[c].pc \in {"write1", "flush1", "write2", "flush2"}}) <= 1

\* C18: when concurrent updates of one task have all returned, that line
\* carries one of the requested statuses, no line was dropped or duplicated
\* and every line is a task line.
C18_SameTaskLastWriterWins ==
  ( /\ \A c \in Callers : Returned(c) /\ callers[c].pc # "raised"
    /\ \A c1 \in Callers : \A c2 \in Callers : callers[c1].desc = callers[c2].desc )
  => /\ Len(ledger) = NumTasks
     /\ \A i \in 1..Len(ledger) :
           /\ ledger[i].desc = PlainDesc(i)
           /\ ledger[i].mark \in {" ", "/", "!", "x"}
     /\ \A c \in Callers :
           \E c2 \in Callers :
              ledger[LineOf(callers[c].desc)].mark = callers[c2].status[2]

\* C19: the ledger file is never empty or truncated, whether a write is in
\* progress, has failed, or was interrupted.
C19_NeverTruncated == Len(ledger) = NumTasks

\* ---- claims on repeated ledger updates (SpecSeq)
\* C20: a call of updateStatus(d, s) that repeats the call before it leaves
\* the file content as that call left it.
C20_UpdateIdempotent ==
  (callers # <<>> /\ callers[1].pc = "again") => ledger = callers[1].snap

\* ---- claims on one ledger edit (SpecEdit)
\* the similarity, in percent, of the query of the call to line i of the
\* file the call found
ScoreOf(c, i) == Ratio(CleanSearch(c.desc), CleanLine(c.snap[i]))

\* C21: a successful updateStatus changes only the status character (and,
\* for Blocked, the annotation) of the one best-matching task line; the
\* other lines, the rest of that line and the number of lines stay.
C21_StatusFrame ==
  (callers # <<>> /\ callers[1].pc = "status" /\ callers[1].found) =>
     LET c == callers[1]
         i == c.hit
     IN  /\ Len(ledger) = Len(c.snap)
         /\ i \in 1..Len(c.snap)
         /\ \A j \in 1..Len(c.snap) :
               LooksLikeTask(c.snap[j]) => ScoreOf(c, j) <= ScoreOf(c, i)
         /\ \A j \in 1..Len(c.snap) : j # i => ledger[j] = c.snap[j]
         /\ ledger[i].mark = c.status[2]
         /\ ledger[i].desc = c.snap[i].desc
         /\ ledger[i].meta = c.snap[i].meta
         /\ c.status # StatusBlocked => ledger[i].annot = c.snap[i].annot

C21_Witness ==
  /\ callers # <<>>
  /\ callers[1].pc = "status"
  /\ callers[1].found
  /\ ledger # callers[1].snap
  /\ callers[1].snap[callers[1].hit].meta # NoMeta
  /\ \E j \in 1..Len(ledger) : j # callers[1].hit /\ ScoreOf(callers[1], j) >= 60

\* C22: after updateStatus(q, Blocked, reason) succeeds the matched line
\* ends with the token [BLOCKED: reason], appended or replacing an old one.
C22_BlockedAnnotation ==
  (/\ callers # <<>>
   /\ callers[1].pc = "status"
   /\ callers[1].found
   /\ callers[1].status = StatusBlocked) =>
     LET t == LineTokens(ledger[callers[1].hit])
     IN  /\ Len(t) >= 6
         /\ SubSeq(t, Len(t) - 5, Len(t)) = BlockedToken(callers[1].reason)

\* C23: updateStatus queried with the parsed description of a task line,
\* with or without its metadata block, resolves to that line with a
\* similarity of at least 0.6.
C23_FuzzyRoundTrip ==
  (/\ callers # <<>>
   /\ callers[1].pc = "status"
   /\ callers[1].line # 0
   /\ ~callers[1].raised) =>
     /\ callers[1].found
     /\ callers[1].hit = callers[1].line
     /\ ScoreOf(callers[1], callers[1].line) >= 60

\* C24: when the best similarity is below 0.6, updateStatus and
\* updateMetadata report not-found and leave the ledger unchanged.
C24_NotFoundUnchanged ==
  (/\ callers # <<>>
   /\ ~callers[1].raised
   /\ \A j \in 1..Len(callers[1].snap) :
         LooksLikeTask(callers[1].snap[j]) => ScoreOf(callers[1], j) < 60) =>
     /\ ~callers[1].found
     /\ ledger = callers[1].snap

C24_Witness ==
  /\ callers # <<>>
  /\ callers[1].pc = "metadata"
  /\ callers[1].line = 0
  /\ ~callers[1].found
  /\ \E j \in 1..Len(ledger) : ledger[j].meta # NoMeta

\* C25: updateMetadata(q, kv) leaves the matched line with its old metadata
\* block overridden by kv, and with its status, description and
\* [BLOCKED: reason] annotation as they were; the other lines stay.
C25_MetadataMerge ==
  (callers # <<>> /\ callers[1].pc = "metadata" /\ callers[1].found) =>
     LET c == callers[1]
         old == c.snap[c.hit]
         merged == DictUpdate(DictOfPairs(Split(old.meta, "|"), <<>>), c.kv)
     IN  /\ LineTokens(ledger[c.hit]) = LineTokens([old EXCEPT !.meta = JoinPairs(merged)])
         /\ \A j \in 1..Len(c.snap) : j # c.hit => ledger[j] = c.snap[j]

\* ---- claims on run_cycle (SpecCycle)
\* Demo has started / has finished, Retrospective has started
DemoStarted == cycle.pc \in {"demo", "retro", "done"} \/ cycle.demo_runs > 0

RetroStarted == cycle.pc \in {"retro", "done"} \/ cycle.retro_runs > 0

CycleOrder ==
  /\ DemoStarted => cycle.qa_finished >= 1
  /\ RetroStarted => cycle.demo_runs = 1
  /\ cycle.demo_runs <= 1
  /\ cycle.retro_runs <= 1
  /\ cycle.pc = "qa" => cycle.tasks_run = Cardinality(enqueued)

C28_SprintState ==
  ev.kind = "validated" =>
     /\ cycle.sprint_state \in {"needs_planning", "completed", "ready"}
     /\ cycle.sprint_state = "needs_planning" <=> Len(ledger) = 0
     /\ cycle.sprint_state = "completed" <=>
           (Len(ledger) > 0 /\ \A i \in 1..Len(ledger) : ledger[i].mark = "x")
     /\ cycle.sprint_state = "ready" <=>
           (\E i \in 1..Len(ledger) : ledger[i].mark \in {" ", "/", "!", "?"})

C28_Witness ==
  /\ ev.kind = "validated"
  /\ cycle.sprint_state = "ready"
  /\ \E i \in 1..Len(ledger) : ledger[i].mark = "x"
  /\ \E i \in 1..Len(ledger) : ledger[i].mark = "?"

\* ---- claims on the scheduling pass (Spec)
\* C29: a pass enqueues exactly the tasks that are Todo, InProgress or
\* Blocked in the ledger at pass start, and the Agent is invoked in a pass
\* only for tasks enqueued in it: never for a task Done at pass start.
C29_EnqueueOnlyPending ==
  /\ [][StartPass =>
          enqueued' = {i \in 1..Len(ledger) : ledger[i].mark \in {" ", "/", "!"}}]_vars
  /\ [][\A t \in Tasks :
          invoked'[t] > invoked[t] => (t \in enqueued /\ t \in enqueued')]_vars

C29_Witness ==
  /\ ev.kind = "start_pass"
  /\ enqueued # {}
  /\ \E t \in Tasks : ledger[t].mark = "x" /\ t \notin enqueued

\* C30: every unit failure records exactly one failure outcome for the
\* task's fingerprint in the circuit breaker, increments the retry counter
\* of its description by exactly one and marks the task Blocked.
C30_FailureContainment ==
  [][\A w \in WorkerIds :
       AgentFail(w) =>
          LET task == item[w]
              n == Len(recent_actions')
          IN  /\ guardrailsOn =>
                   /\ n > 0
                   /\ recent_actions'[n] = <<Fingerprint(task.desc), FALSE>>
                   /\ SubSeq(recent_actions', 1, n - 1) =
                         IF Len(recent_actions) < window_size
                         THEN recent_actions ELSE Tail(recent_actions)
              /\ tracker'[task.desc] = tracker[task.desc] + 1
              /\ ledger'[task.idx].mark = "!"]_vars

\* ---- claims on validate_output (SpecOutput)
\* the text with every outermost detected occurrence replaced by the
\* placeholder of its category, from position i on
RECURSIVE MaskedAsDetected(_, _, _)
MaskedAsDetected(text, findings, i) ==
  IF i > Len(text) THEN <<>>
  ELSE LET here == {k \in 1..Len(findings) : findings[k].pos = i}
       IN  IF here = {}
           THEN <<text[i]>> \o MaskedAsDetected(text, findings, i + 1)
           ELSE LET k == CHOOSE a \in here :
                           \A b \in here : findings[b].len <= findings[a].len
                IN  <<Placeholder(findings[k].type)>> \o
                    MaskedAsDetected(text, findings, i + findings[k].len)

\* C27: validate_output reports the text invalid whenever PII is detected
\* or the content is harmful, whatever the masked text is, and returns the
\* text with every detected PII occurrence replaced by the placeholder of
\* its category.
C27_OutputMasked ==
  output.pc = "done" =>
     /\ output.findings # <<>> => ~output.is_valid
     /\ output.harmful => ~output.is_valid
     /\ output.sanitized = MaskedAsDetected(output.text, output.findings, 1)

\* ---- claims on the retry counter and the success and failure paths (Spec)
\* the step went from awaiting the agent of item[w] to the success branch
SucceededStep(w) == pc[w] = "stream" /\ ev'.kind = "success" /\ ev'.w = w

\* the step went from awaiting the agent of item[w] to the failure branch
FailedStep(w) == pc[w] = "stream" /\ ev'.kind = "fail" /\ ev'.w = w

\* the step of worker w dispatched a new item (the agent is invoked for it)
DispatchedStep(w) ==
  /\ ev'.w = w
  /\ pc'[w] = "stream"
  /\ invoked'[item'[w].idx] = invoked[item'[w].idx] + 1

\* C33: the in-run retry counter of every description is 0 at the start of
\* each scheduling pass; nothing is carried over from an earlier pass.
C33_TrackerFreshPerPass ==
  [][ev'.kind = "start_pass" => \A d \in AllDescs : tracker'[d] = 0]_vars

\* a later pass has started with a fresh counter after a pass in which a
\* failure was counted, and a task found Blocked is dispatched again
C33_Witness ==
  /\ passNo >= 2
  /\ \E w \in WorkerIds :
        /\ pc[w] = "stream"
        /\ item[w].status = "blocked"
        /\ tracker[item[w].desc] = 0

\* the queued items a step took from the queue without dispatching them
SkippedInStep(w) ==
  {queue[i] : i \in {k \in 1..Len(queue) :
                       /\ \A j \in 1..Len(queue') : queue'[j] # queue[k]
                       /\ item'[w] # queue[k]}}

\* C32: an item found Blocked whose retry counter is 2 or more is skipped
\* without an Agent invocation and without a ledger change; any other item
\* found Blocked has its counter incremented when it is dispatched; no task
\* is dispatched more than twice in a pass.
C32_BlockedRetryLimit ==
  [][\A w \in WorkerIds :
        /\ ev'.w = w =>
             \A t \in SkippedInStep(w) :
                (t.status = "blocked" /\ tracker[t.desc] >= MAX_BLOCKED_RETRIES) =>
                   /\ invoked'[t.idx] = invoked[t.idx]
                   /\ ledger'[t.idx] = ledger[t.idx]
        /\ (DispatchedStep(w) /\ item'[w].status = "blocked") =>
             tracker'[item'[w].desc] = tracker[item'[w].desc] + 1
        /\ \A t \in Tasks : invoked'[t] <= MAX_BLOCKED_RETRIES]_vars

\* C38: the outcome of a failure does not depend on the worker's history:
\* whether or not the worker completed an item before, the failure handler
\* leaves the same ledger, the same circuit-breaker records and the same
\* retry counters.
C38_FailureIndependentOfWorker ==
  \A w \in WorkerIds :
     (pc[w] = "stream" /\ ~cancelReq[w]) =>
        LET seen == OnFailure(SyncState, item[w], TRUE)
            fresh == OnFailure(SyncState, item[w], FALSE)
        IN  /\ seen.ledger = fresh.ledger
            /\ seen.recent = fresh.recent
            /\ seen.tracker = fresh.tracker

\* ---- claims on passes over descriptions alike (SpecAlike)
\* C31: when a unit completes, the success branch marks the task Done,
\* records one success for its fingerprint in the circuit breaker, and
\* leaves the retry counter of its description at 0.
C31_SuccessOutcome ==
  [][\A w \in WorkerIds :
        SucceededStep(w) =>
           LET s == OnSuccess(SyncState, item[w], TurnsPerStream)
           IN  /\ s.ledger[item[w].idx].mark = "x"
               /\ guardrailsOn =>
                    /\ s.recent # <<>>
                    /\ s.recent[Len(s.recent)] = <<Fingerprint(item[w].desc), TRUE>>
                    /\ Len(recent_actions) < window_size =>
                         SubSeq(s.recent, 1, Len(s.recent) - 1) = recent_actions
               /\ s.tracker[item[w].desc] = 0]_vars

\* C34: while the Agent of an item runs, from its invocation on, the
\* ledger line of the item's task is marked InProgress.
C34_InProgressBeforeDispatch ==
  [][\A w \in WorkerIds :
        DispatchedStep(w) => ledger'[item'[w].idx].mark = "/"]_vars

\* ---- claims on the recorded turn usage (SpecUsage)
\* the step in which the stream of the unit ended and run_agent returned
UnitCompletedStep == unitPc = "run" /\ unitPc' = "ok"

\* the TURNS_USED entry of a ledger line, <<>> when it has none
TurnsUsedOf(l) ==
  LET d == DictOfPairs(Split(l.meta, "|"), <<>>)
      hits == {i \in 1..Len(d) : d[i].k = <<"TURNS_USED">>}
  IN  IF hits = {} THEN <<>> ELSE d[CHOOSE i \in hits : TRUE].v

\* C35: when a unit completes, the TURNS_USED value on the ledger line of
\* its task is the number of events the completed attempt consumed, and
\* the metadata of every other line is left as it was.
C35_TurnsUsedOnOwnLine ==
  [][UnitCompletedStep =>
        LET i == item[UnitWorker].idx
        IN  /\ TurnsUsedOf(ledger'[i]) = StrOfNat(turn_count)
            /\ \A j \in Tasks \ {i} : ledger'[j].meta = ledger[j].meta]_vars

\* ---- claims on the attempts of one unit (SpecUnit)
\* the step in which an attempt of run_agent started and reached its stream
AttemptStartedStep == unitPc \in {"off", "backoff"} /\ unitPc' = "run"

\* the step in which the running attempt consumed one more event
EventConsumedStep == unitPc = "run" /\ turn_count' = turn_count + 1

\* every attempt starts with the counter at 0 and the budget of the task's
\* metadata, and there are at most StopAfterAttempt attempts
AttemptsStartAfresh ==
  /\ AttemptStartedStep =>
        /\ turn_count' = 0
        /\ soft_limit' = InitialBudget(task_meta).soft
        /\ hard_limit' = InitialBudget(task_meta).hard
  /\ attempt_number' <= StopAfterAttempt

\* C39 as stated: every attempt starts afresh, and the events an attempt
\* has consumed never exceed its hard limit by more than one.
C39_AttemptBudget ==
  [][/\ AttemptsStartAfresh
     /\ EventConsumedStep => turn_count' <= hard_limit' + 1]_vars

\* C39 amended: every attempt starts afresh, and an event is consumed only
\* while the count was within the hard limit in effect before that event,
\* so the count never exceeds the largest limit of the attempt by more
\* than one.
C39_AttemptBudgetInEffect ==
  [][/\ AttemptsStartAfresh
     /\ EventConsumedStep => turn_count' <= hard_limit + 1]_vars

\* a retry attempt has started: counter 0 and the initial budget
C39_Witness ==
  /\ attempt_number >= 2
  /\ unitPc = "run"
  /\ turn_count = 0
  /\ hard_limit = InitialBudget(task_meta).hard

\* ---- claims on the bound of the cycle and its early returns (SpecCycle)
\* the step in which a Validation phase returned
QAReturnedStep == cycle.pc = "qa" /\ cycle'.qa_finished = cycle.qa_finished + 1

\* C40: run_cycle runs Execution and Validation at most three times each;
\* when the third Validation returns, with or without defects, the Demo is
\* next; and a cycle whose sprint state is 'completed' or 'needs_planning'
\* starts no pass, no Validation, no Demo and no Retrospective, invokes no
\* agent and leaves the ledger as it was.
C40_CycleBoundAndEarlyReturn ==
  [][/\ passNo' <= MaxLoops
     /\ cycle'.qa_finished <= MaxLoops
     /\ (QAReturnedStep /\ cycle'.qa_finished = MaxLoops) => cycle'.pc = "demo"
     /\ (QAReturnedStep /\ cycle'.defects_found /\ cycle'.qa_finished < MaxLoops) =>
           cycle'.pc = "exec"
     /\ cycle'.sprint_state \in {"completed", "needs_planning"} =>
           /\ cycle'.pc = "returned"
           /\ passNo' = 0
           /\ cycle'.qa_finished = 0
           /\ cycle'.demo_runs = 0
           /\ cycle'.retro_runs = 0
           /\ \A t \in DOMAIN invoked' : invoked'[t] = 0
           /\ ledger' = ledger]_vars

\* the third Validation has reported defects and the Demo is next
C40_Witness ==
  /\ cycle.pc = "demo"
  /\ cycle.defects_found
  /\ cycle.qa_finished = MaxLoops
  /\ passNo = MaxLoops

\* a cycle on a finished sprint has returned at once
C40_WitnessReturned ==
  /\ cycle.pc = "returned"
  /\ cycle.sprint_state = "completed"
  /\ passNo = 0

\* ---- claims on the locked mutations (SpecLock)
\* the delays of the retries, in tenths of a second, by attempt (from 0)
BackoffTenths == <<1, 2, 4, 8>>

\* the step in which the call of caller c ran into a locked file or an
\* I/O error
IOErrorStep(c) == ev'.w = c /\ ev'.kind \in {"contention", "IOError"}

\* C36: a call that finds the file locked sleeps 0.1*2^attempt seconds and
\* tries again, at most five times in all; the fifth failure returns the
\* error; and whenever a call has returned or raised, and while it sleeps,
\* it holds no lock.
C36_BoundedRetryAndRelease ==
  [][\A c \in Callers :
        LET call == locking.calls[c]
            after == locking'.calls[c]
        IN  /\ after.attempt + 1 <= 5
            /\ IOErrorStep(c) =>
                  IF call.attempt + 1 < 5
                  THEN /\ after.pc = "sleep"
                       /\ after.wait = BackoffTenths[call.attempt + 1]
                  ELSE /\ after.pc = "done"
                       /\ after.result = "Error: Failed after attempts"
            /\ after.pc # "held" => locking'.holder # c]_vars

\* the fifth attempt of a call found the file locked and the call returned
\* the error, holding no lock
C36_Witness ==
  \E c \in Callers :
     /\ ev.w = c
     /\ ev.kind = "contention"
     /\ locking.calls[c] = Returns("Error: Failed after attempts")
     /\ locking.holder \notin {0, c}

\* ---- claims on the file the operations act on (SpecFiles)
\* C37: every file written by a status write of the scheduler, by the
\* turn-usage write, by a header update or by an added task is the file
\* run_cycle located and the passes parse.
C37_OneFilePerRun ==
  files.pc = "run" => \A t \in files.written : t = files.parsed

====
